---------------------------- MODULE Spec2Model ----------------------------
(***************************************************************************)
(* Hive server: vault membership (server/src/permissions.ts), the         *)
(* collaboration engine (collaboration.ts), the vault store (vault.ts)    *)
(* and the socket / HTTP entry points (index.ts).                         *)
(*                                                                         *)
(* Specifications:                                                         *)
(*   SpecPerm      PermissionStore calls, each run to completion, with a  *)
(*                 database error injected at any statement.              *)
(*   SpecJoinRace  join-vault handlers of two sockets interleaved at      *)
(*                 their awaits.                                           *)
(*   SpecXferRace  transferOwnership / removeMember calls interleaved at  *)
(*                 their awaits, on the one shared sqlite connection.     *)
(*   Spec          the collaboration engine: authenticate, join-vault,    *)
(*                 sync-message, leave-vault, disconnect, the save and    *)
(*                 file-write timers and the HTTP vault / member routes,  *)
(*                 each handler run to completion.                        *)
(*   SpecDocRace   getOrCreateDoc, the saves and the debounced file      *)
(*                 timers interleaved at their awaits, with Y.Doc         *)
(*                 instances as objects.                                   *)
(*   SpecStateFile, SpecRestorePath, SpecRestoreFail, SpecRetention       *)
(*                 the file and restore routes over paths and backup      *)
(*                 names, a failing pre-restore copy, and the scheduler   *)
(*                 with restores in between.                               *)
(***************************************************************************)
EXTENDS Integers, Sequences, FiniteSets, TLC

(***************************************************************************)
(* Bounds of the model.                                                    *)
(***************************************************************************)
NumUsers == 2
NumProcs == 2
NumConns == 2
NumAtoms == 1
NumSeedPaths == 2
InstantsPerDay == 3
MaxClock == 27
MaxBackupClock == 1
MaxPathLen == 3
MaxTimestampLen == 5
NumUpdates == 2
MaxCalls == 4
MaxApiCalls == 2
MaxHandlers == 2
MaxEvents == 6

Users == 1..NumUsers
Conns == 1..NumConns
\* CRDT update atoms; a Y.Doc state is the set of atoms it has integrated.
Atoms == 1..NumAtoms
SeedPaths == 1..NumSeedPaths

\* addedBy = null: the system / migration actor (permissions.ts:173).
System == 0
Actors == Users \cup {System}

Roles == {"owner", "admin", "editor", "viewer"}
NoRole == "none"
\* A role string the validation of addMember / updateMemberRole refuses.
BadRole == "superuser"
RoleInputs == Roles \cup {BadRole}

\* ROLE_HIERARCHY
RoleHierarchy(r) ==
  CASE r = "viewer" -> 1
    [] r = "editor" -> 2
    [] r = "admin"  -> 3
    [] r = "owner"  -> 4

(***************************************************************************)
(* Vault ids are strings, modelled as sequences of characters.            *)
(***************************************************************************)
IdChars == {"a", "b", "c", "_", "-", "0"}
VaultAB == <<"a", "b">>
VaultADotB == <<"a", ".", "b">>
VaultIds == {VaultAB, VaultADotB}

\* /^[a-zA-Z0-9_-]+$/.test(vaultId)
ValidVaultId(id) == Len(id) > 0 /\ \A i \in 1..Len(id) : id[i] \in IdChars

IsIdChar(c) == c \in IdChars

\* vaultId.replace(/[^a-zA-Z0-9_-]/g, '')
SanitizeId(id) == SelectSeq(id, IsIdChar)

\* getVaultPath: the directory under VAULTS_PATH a vault id resolves to.
getVaultPath(id) == SanitizeId(id)

DirNames == {getVaultPath(id) : id \in VaultIds}

VARIABLES
  members,               \* vault_members: [VaultIds -> [Users -> Roles \cup {NoRole}]]
  lastCall,              \* the last PermissionStore call and its result
  txActive, txSnap,      \* the sqlite connection's open transaction
  procs,                 \* in-flight async calls
  crashed,               \* the process died of an unhandled 'error' event
  dirs, snapshot,        \* vault directories and their _state.ydoc
  files,                 \* the updates materialized as files of a vault directory
  backups,               \* data/backups/{dir}/{hourly,daily}/{name}: copies of the directory
  clock,                 \* the wall clock, in scheduler periods
  users,                 \* ids of the rows of the users table
  fileCall,              \* the last per-file call of the vault store and its outcome
  heap,                  \* the Y.Doc instances created so far, with their observer's maps
  docId,                 \* vaultId -> the instance that vaultDocs holds
  timers,                \* the setTimeout timers of the file observers
  vaultDocs, dirtyVaults, vaultClients, pendingWrites,
  vaultAwareness,        \* vaultId -> client ids that have an awareness state
  clientDocs,            \* the Y.Doc state each client holds
  connected,             \* sockets that have not disconnected
  authenticatedSockets, sockVault, sockRole, handlers,
  emitted, lastOp,       \* what the last handler emitted; the last event handled
  apiCalls, events       \* HTTP requests and events handled so far

permVars == <<members, lastCall>>
txVars   == <<txActive, txSnap, procs, crashed>>
fsVars   == <<dirs, snapshot, files>>
objVars  == <<heap, docId, timers>>
admVars  == <<backups, clock, users, fileCall, objVars>>
regVars  == <<vaultDocs, dirtyVaults, vaultClients, pendingWrites, vaultAwareness, clientDocs>>
sockVars == <<connected, authenticatedSockets, sockVault, sockRole, handlers>>
histVars == <<emitted, lastOp, apiCalls, events>>
vars == <<members, lastCall, txActive, txSnap, procs, crashed, dirs, snapshot,
          files, backups, clock, users, fileCall, heap, docId, timers,
          vaultDocs, dirtyVaults, vaultClients, pendingWrites, vaultAwareness, clientDocs,
          connected, authenticatedSockets, sockVault, sockRole, handlers,
          emitted, lastOp, apiCalls, events>>

EmptyTable == [v \in VaultIds |-> [u \in Users |-> NoRole]]

(***************************************************************************)
(* permissions.ts: reads.                                                  *)
(***************************************************************************)
getUserVaultRole(m, userId, vaultId) == m[vaultId][userId]

hasRoleOrHigher(m, userId, vaultId, requiredRole) ==
  LET userRole == getUserVaultRole(m, userId, vaultId) IN
  IF userRole = NoRole THEN FALSE
  ELSE RoleHierarchy(userRole) >= RoleHierarchy(requiredRole)

isOwner(m, userId, vaultId) == getUserVaultRole(m, userId, vaultId) = "owner"

\* A mutant of canModifyMember: an equal role may be modified.
canModifyMemberGeq(m, actorId, targetUserId, vaultId) ==
  LET actorRole == getUserVaultRole(m, actorId, vaultId)
      targetRole == getUserVaultRole(m, targetUserId, vaultId) IN
  IF actorId = targetUserId THEN FALSE
  ELSE IF actorRole = NoRole THEN FALSE
  ELSE IF RoleHierarchy(actorRole) < RoleHierarchy("admin") THEN FALSE
  ELSE IF targetRole = NoRole THEN TRUE
  ELSE RoleHierarchy(actorRole) >= RoleHierarchy(targetRole)

canModifyMember(m, actorId, targetUserId, vaultId) ==
  LET actorRole == getUserVaultRole(m, actorId, vaultId)
      targetRole == getUserVaultRole(m, targetUserId, vaultId) IN
  IF actorId = targetUserId THEN FALSE
  ELSE IF actorRole = NoRole THEN FALSE
  ELSE IF RoleHierarchy(actorRole) < RoleHierarchy("admin") THEN FALSE
  ELSE IF targetRole = NoRole THEN TRUE
  ELSE RoleHierarchy(actorRole) > RoleHierarchy(targetRole)

canAssignRole(m, actorId, vaultId, roleToAssign) ==
  LET actorRole == getUserVaultRole(m, actorId, vaultId) IN
  IF actorRole = NoRole THEN FALSE
  ELSE IF roleToAssign = "owner" THEN FALSE
  ELSE IF actorRole = "owner" THEN TRUE
  ELSE IF actorRole = "admin" THEN roleToAssign \in {"editor", "viewer"}
  ELSE FALSE

\* getVaultOwner: the users of the rows with role owner (db.get takes one).
VaultOwners(m, vaultId) == {u \in Users : m[vaultId][u] = "owner"}
getVaultOwnerIsNull(m, vaultId) == VaultOwners(m, vaultId) = {}

VaultMembers(m, vaultId) == {u \in Users : m[vaultId][u] # NoRole}
vaultHasMembers(m, vaultId) == VaultMembers(m, vaultId) # {}

(***************************************************************************)
(* SQL statements on vault_members.                                        *)
(***************************************************************************)
\* INSERT INTO vault_members: UNIQUE(vault_id, user_id) refuses a second row.
SqlInsertConflicts(m, vaultId, userId) == m[vaultId][userId] # NoRole
SqlInsert(m, vaultId, userId, role) == [m EXCEPT ![vaultId][userId] = role]

\* UPDATE vault_members SET role = ? WHERE vault_id = ? AND user_id = ?
SqlUpdateChanges(m, vaultId, userId) == IF m[vaultId][userId] # NoRole THEN 1 ELSE 0
SqlUpdate(m, vaultId, userId, role) ==
  IF m[vaultId][userId] # NoRole THEN [m EXCEPT ![vaultId][userId] = role] ELSE m

\* DELETE FROM vault_members WHERE vault_id = ? AND user_id = ?
SqlDelete(m, vaultId, userId) == [m EXCEPT ![vaultId][userId] = NoRole]

\* DELETE FROM vault_members WHERE vault_id = ?
deleteAllVaultMembers(m, vaultId) == [m EXCEPT ![vaultId] = [u \in Users |-> NoRole]]

\* A mutant of SqlRollback: the rollback restores nothing.
SqlRollbackKeep(cur, snap) == cur

\* ROLLBACK: the table as it was at BEGIN TRANSACTION.
SqlRollback(cur, snap) == snap

Result(ok, error, m) == [ok |-> ok, error |-> error, m |-> m]

(***************************************************************************)
(* permissions.ts: the mutating calls, run to completion.  dbErr names    *)
(* the statement at which the database reports an error ("none": none).   *)
(***************************************************************************)
addMember(m, vaultId, userId, role, addedBy, dbErr) ==
  IF role \notin Roles THEN Result(FALSE, "Invalid role", m)
  ELSE IF addedBy # System /\ ~canAssignRole(m, addedBy, vaultId, role)
    THEN Result(FALSE, "Insufficient permissions to assign this role", m)
  ELSE IF SqlInsertConflicts(m, vaultId, userId)
    THEN Result(FALSE, "User is already a member of this vault", m)
  ELSE IF dbErr = "insert" THEN Result(FALSE, "Database error", m)
  ELSE Result(TRUE, "", SqlInsert(m, vaultId, userId, role))

removeMember(m, vaultId, userId, removedBy, dbErr) ==
  IF getUserVaultRole(m, userId, vaultId) = "owner"
    THEN Result(FALSE, "Cannot remove vault owner. Transfer ownership first.", m)
  ELSE IF ~canModifyMember(m, removedBy, userId, vaultId)
    THEN Result(FALSE, "Insufficient permissions to remove this member", m)
  ELSE IF dbErr = "delete" THEN Result(FALSE, "Database error", m)
  ELSE IF m[vaultId][userId] = NoRole THEN Result(FALSE, "Member not found", m)
  ELSE Result(TRUE, "", SqlDelete(m, vaultId, userId))

updateMemberRole(m, vaultId, userId, newRole, updatedBy, dbErr) ==
  IF newRole \notin Roles THEN Result(FALSE, "Invalid role", m)
  ELSE IF newRole = "owner"
    THEN Result(FALSE, "Use transferOwnership to change vault owner", m)
  ELSE IF ~canModifyMember(m, updatedBy, userId, vaultId)
    THEN Result(FALSE, "Insufficient permissions to modify this member", m)
  ELSE IF ~canAssignRole(m, updatedBy, vaultId, newRole)
    THEN Result(FALSE, "Insufficient permissions to assign this role", m)
  ELSE IF dbErr = "update" THEN Result(FALSE, "Database error", m)
  ELSE IF SqlUpdateChanges(m, vaultId, userId) = 0 THEN Result(FALSE, "Member not found", m)
  ELSE Result(TRUE, "", SqlUpdate(m, vaultId, userId, newRole))

\* The transaction of transferOwnership, begun on table m.
transferTransaction(m, vaultId, newOwnerId, currentOwnerId, dbErr) ==
  LET snap == m
      demoted == SqlUpdate(m, vaultId, currentOwnerId, "admin")
      promoted == SqlUpdate(demoted, vaultId, newOwnerId, "owner") IN
  IF dbErr = "demote" THEN Result(FALSE, "Database error", SqlRollback(m, snap))
  ELSE IF dbErr = "promote" THEN Result(FALSE, "Database error", SqlRollback(demoted, snap))
  ELSE IF dbErr = "commit" THEN Result(FALSE, "Database error", SqlRollback(promoted, snap))
  ELSE Result(TRUE, "", promoted)

transferOwnership(m, vaultId, newOwnerId, currentOwnerId, dbErr) ==
  IF ~isOwner(m, currentOwnerId, vaultId)
    THEN Result(FALSE, "Only the current owner can transfer ownership", m)
  ELSE IF getUserVaultRole(m, newOwnerId, vaultId) = NoRole
    THEN Result(FALSE, "New owner must be an existing member of the vault", m)
  ELSE IF newOwnerId = currentOwnerId
    THEN Result(FALSE, "Cannot transfer ownership to yourself", m)
  ELSE transferTransaction(m, vaultId, newOwnerId, currentOwnerId, dbErr)

setVaultOwner(m, vaultId, userId, dbErr) ==
  IF ~getVaultOwnerIsNull(m, vaultId) THEN Result(FALSE, "Vault already has an owner", m)
  ELSE IF SqlInsertConflicts(m, vaultId, userId)
    THEN IF dbErr = "update" THEN Result(FALSE, "Database error", m)
         ELSE Result(TRUE, "", SqlUpdate(m, vaultId, userId, "owner"))
  ELSE IF dbErr = "insert" THEN Result(FALSE, "Database error", m)
  ELSE Result(TRUE, "", SqlInsert(m, vaultId, userId, "owner"))

(***************************************************************************)
(* Initial state shared by the specifications.                             *)
(***************************************************************************)
NoCall == [op |-> "none", vaultId |-> VaultAB, userId |-> 0, role |-> NoRole,
           actor |-> 0, dbErr |-> "none", ok |-> FALSE, error |-> "",
           before |-> EmptyTable]

\* A Map with no entry (vaultDocs = new Map()).
EmptyMap == [k \in {} |-> {}]
NoUser == 0
NoVault == <<>>
NoFileCall == [op |-> "none", vaultId |-> NoVault, paths |-> <<>>, ok |-> TRUE, touched |-> {}]
NoBackups == [hourly |-> EmptyMap, daily |-> EmptyMap]
NoOp == [op |-> "none", conn |-> 0, vaultId |-> NoVault, user |-> NoUser]

\* The collaboration engine before any socket event: no document in memory,
\* no client in any vault, every socket connected and unauthenticated.
InitAdmin ==
  /\ backups = [d \in DirNames |-> NoBackups]
  /\ clock = 0
  /\ users = Users
  /\ fileCall = NoFileCall
  /\ heap = <<>>
  /\ docId = EmptyMap
  /\ timers = <<>>

InitEngine ==
  /\ InitAdmin
  /\ vaultDocs = EmptyMap
  /\ dirtyVaults = <<>>
  /\ vaultClients = [v \in VaultIds |-> {}]
  /\ pendingWrites = [v \in VaultIds |-> {}]
  /\ vaultAwareness = EmptyMap
  /\ clientDocs = [c \in Conns |-> {}]
  /\ connected = Conns
  /\ authenticatedSockets = [c \in Conns |-> NoUser]
  /\ sockVault = [c \in Conns |-> NoVault]
  /\ sockRole = [c \in Conns |-> NoRole]
  /\ handlers = [c \in Conns |-> <<>>]
  /\ emitted = <<>>
  /\ lastOp = NoOp
  /\ apiCalls = 0
  /\ events = 0

InitCommon ==
  /\ members = EmptyTable
  /\ lastCall = NoCall
  /\ txActive = FALSE
  /\ txSnap = EmptyTable
  /\ procs = <<>>
  /\ crashed = FALSE
  /\ dirs = {}
  /\ snapshot = [d \in DirNames |-> {}]
  /\ files = [d \in DirNames |-> {}]
  /\ InitEngine

(***************************************************************************)
(* SpecPerm: the PermissionStore, one call at a time, on one vault.       *)
(***************************************************************************)
PermVault == VaultAB

Call(op, userId, role, actor, dbErr, res) ==
  /\ members' = res.m
  /\ lastCall' = [op |-> op, vaultId |-> PermVault, userId |-> userId, role |-> role,
                  actor |-> actor, dbErr |-> dbErr, ok |-> res.ok, error |-> res.error,
                  before |-> members]
  /\ UNCHANGED <<txVars, admVars, fsVars, regVars, sockVars, histVars>>

AddMemberCall ==
  \E u \in Users, r \in RoleInputs, a \in Actors, e \in {"none", "insert"} :
    Call("addMember", u, r, a, e, addMember(members, PermVault, u, r, a, e))

RemoveMemberCall ==
  \E u \in Users, a \in Users, e \in {"none", "delete"} :
    Call("removeMember", u, NoRole, a, e, removeMember(members, PermVault, u, a, e))

UpdateMemberRoleCall ==
  \E u \in Users, r \in RoleInputs, a \in Users, e \in {"none", "update"} :
    Call("updateMemberRole", u, r, a, e, updateMemberRole(members, PermVault, u, r, a, e))

TransferOwnershipCall ==
  \E u \in Users, a \in Users, e \in {"none", "demote", "promote", "commit"} :
    Call("transferOwnership", u, NoRole, a, e, transferOwnership(members, PermVault, u, a, e))

SetVaultOwnerCall ==
  \E u \in Users, e \in {"none", "insert", "update"} :
    Call("setVaultOwner", u, NoRole, System, e, setVaultOwner(members, PermVault, u, e))

NextPerm ==
  \/ AddMemberCall
  \/ RemoveMemberCall
  \/ UpdateMemberRoleCall
  \/ TransferOwnershipCall
  \/ SetVaultOwnerCall

SpecPerm == InitCommon /\ [][NextPerm]_vars

(***************************************************************************)
(* Claims on the PermissionStore (SpecPerm).                               *)
(***************************************************************************)

\* C6: after any sequence of PermissionStore calls, every vault that has at
\* least one membership row has exactly one row with role owner.
C6_ExactlyOneOwner ==
  \A v \in VaultIds :
    vaultHasMembers(members, v) => Cardinality(VaultOwners(members, v)) = 1

\* C7: no addMember or updateMemberRole call, by any actor, the system actor
\* included, creates an owner row or turns a row into an owner row; a call
\* that asks for role owner fails and leaves the table unchanged.
C7_OwnerNeverAssigned ==
  lastCall.op \in {"addMember", "updateMemberRole"} =>
    /\ VaultOwners(members, lastCall.vaultId)
         \subseteq VaultOwners(lastCall.before, lastCall.vaultId)
    /\ lastCall.role = "owner" => (~lastCall.ok /\ members = lastCall.before)

\* The transaction of the last transferOwnership call was begun.
TransferBegan ==
  /\ lastCall.op = "transferOwnership"
  /\ isOwner(lastCall.before, lastCall.actor, lastCall.vaultId)
  /\ getUserVaultRole(lastCall.before, lastCall.userId, lastCall.vaultId) # NoRole
  /\ lastCall.userId # lastCall.actor

\* C8: when either role update of transferOwnership, or its commit, fails,
\* the call reports failure and the membership table is what it was before
\* the call: the owner is still owner, the target keeps its role.
C8_FailedTransferRollsBack ==
  (TransferBegan /\ lastCall.dbErr # "none") =>
    /\ ~lastCall.ok
    /\ members = lastCall.before
    /\ isOwner(members, lastCall.actor, lastCall.vaultId)
    /\ getUserVaultRole(members, lastCall.userId, lastCall.vaultId)
         = getUserVaultRole(lastCall.before, lastCall.userId, lastCall.vaultId)

\* C8 witness: the promotion failed after the owner had been demoted.
C8_Witness ==
  /\ TransferBegan
  /\ lastCall.dbErr = "promote"
  /\ lastCall.error = "Database error"
  /\ getUserVaultRole(members, lastCall.userId, lastCall.vaultId) = "admin"

Procs == 1..NumProcs
RaceVault == VaultAB

Proc(op, pc, user, target) ==
  [op |-> op, pc |-> pc, user |-> user, target |-> target, role |-> NoRole,
   outcome |-> "running"]

Goto(p, pc) == procs' = [procs EXCEPT ![p].pc = pc]
Finish(p, outcome) == procs' = [procs EXCEPT ![p].pc = "done", ![p].outcome = outcome]

raceRest == <<lastCall, regVars, sockVars, histVars, snapshot, files, admVars>>

(***************************************************************************)
(* SpecJoinRace: socket.on('join-vault') of two sockets, users 1 and 2.   *)
(***************************************************************************)
vaultExists(ds, vaultId) == getVaultPath(vaultId) \in ds

InitJoinRace ==
  /\ members = EmptyTable
  /\ lastCall = NoCall
  /\ txActive = FALSE
  /\ txSnap = EmptyTable
  /\ procs \in {[p \in Procs |-> Proc("join", "j_exists", f[p], NoUser)] :
                  f \in [Procs -> Users]}
  /\ crashed = FALSE
  /\ dirs \in {{}, {getVaultPath(RaceVault)}}
  /\ snapshot = [d \in DirNames |-> {}]
  /\ files = [d \in DirNames |-> {}]
  /\ InitEngine

\* index.ts: if (!(await vaultExists(vaultId))) createVault(vaultId, user.id)
JoinExists(p) ==
  /\ procs[p].pc = "j_exists"
  /\ IF vaultExists(dirs, RaceVault) THEN Goto(p, "j_hasMembers") ELSE Goto(p, "c_access")
  /\ UNCHANGED <<members, txActive, txSnap, crashed, dirs, raceRest>>

\* createVault: fs.access(vaultPath): return false when the directory is there.
CreateAccess(p) ==
  /\ procs[p].pc = "c_access"
  /\ IF vaultExists(dirs, RaceVault) THEN Goto(p, "j_hasMembers") ELSE Goto(p, "c_mkdir")
  /\ UNCHANGED <<members, txActive, txSnap, crashed, dirs, raceRest>>

\* createVault: fs.mkdir(vaultPath), saveVaultState(vaultId, new Y.Doc()).
CreateMkdir(p) ==
  /\ procs[p].pc = "c_mkdir"
  /\ dirs' = dirs \cup {getVaultPath(RaceVault)}
  /\ Goto(p, "c_owner")
  /\ UNCHANGED <<members, txActive, txSnap, crashed, raceRest>>

\* setVaultOwner: getVaultOwner; an owner row refuses the call.
OwnerRead(p, here, insert, refused) ==
  /\ procs[p].pc = here
  /\ IF getVaultOwnerIsNull(members, RaceVault) THEN Goto(p, insert) ELSE refused
  /\ UNCHANGED <<members, txActive, txSnap, crashed, dirs, raceRest>>

\* setVaultOwner: INSERT the owner row; on the UNIQUE error UPDATE the row.
OwnerInsert(p, here, update, succeeded) ==
  /\ procs[p].pc = here
  /\ IF SqlInsertConflicts(members, RaceVault, procs[p].user)
       THEN /\ Goto(p, update)
            /\ UNCHANGED members
       ELSE /\ members' = SqlInsert(members, RaceVault, procs[p].user, "owner")
            /\ succeeded
  /\ UNCHANGED <<txActive, txSnap, crashed, dirs, raceRest>>

OwnerUpdate(p, here, succeeded) ==
  /\ procs[p].pc = here
  /\ members' = SqlUpdate(members, RaceVault, procs[p].user, "owner")
  /\ succeeded
  /\ UNCHANGED <<txActive, txSnap, crashed, dirs, raceRest>>

\* createVault(vaultId, ownerId): its setVaultOwner result is not looked at.
CreateOwnerRead(p) == OwnerRead(p, "c_owner", "c_insert", Goto(p, "j_hasMembers"))
CreateOwnerInsert(p) == OwnerInsert(p, "c_insert", "c_update", Goto(p, "j_hasMembers"))
CreateOwnerUpdate(p) == OwnerUpdate(p, "c_update", Goto(p, "j_hasMembers"))

\* handleJoinVault: const hasMembers = await vaultHasMembers(vaultId)
JoinHasMembers(p) ==
  /\ procs[p].pc = "j_hasMembers"
  /\ IF vaultHasMembers(members, RaceVault) THEN Goto(p, "j_role") ELSE Goto(p, "m_owner")
  /\ UNCHANGED <<members, txActive, txSnap, crashed, dirs, raceRest>>

\* handleJoinVault, migration branch: userRole = 'owner' when setVaultOwner
\* succeeded, else socket.emit('error', 'Failed to set vault ownership').
BecomeOwner(p) == procs' = [procs EXCEPT ![p].pc = "j_add", ![p].role = "owner"]
MigrateOwnerRead(p) == OwnerRead(p, "m_owner", "m_insert", Finish(p, "error"))
MigrateOwnerInsert(p) == OwnerInsert(p, "m_insert", "m_update", BecomeOwner(p))
MigrateOwnerUpdate(p) == OwnerUpdate(p, "m_update", BecomeOwner(p))

\* handleJoinVault: getUserVaultRole; no row: permission-denied{join}.
JoinRole(p) ==
  /\ procs[p].pc = "j_role"
  /\ LET role == getUserVaultRole(members, procs[p].user, RaceVault) IN
     IF role = NoRole THEN Finish(p, "permission-denied:join")
     ELSE procs' = [procs EXCEPT ![p].pc = "j_add", ![p].role = role]
  /\ UNCHANGED <<members, txActive, txSnap, crashed, dirs, raceRest>>

\* handleJoinVault: addClientToVault(vaultId, socket).
JoinAdd(p) ==
  /\ procs[p].pc = "j_add"
  /\ Finish(p, "joined")
  /\ vaultClients' = [vaultClients EXCEPT ![RaceVault] = @ \cup {p}]
  /\ UNCHANGED <<members, txActive, txSnap, crashed, dirs, snapshot, files, admVars, lastCall,
                 vaultDocs, dirtyVaults, pendingWrites, vaultAwareness, clientDocs,
                 sockVars, histVars>>

NextJoinRace ==
  \E p \in Procs :
    \/ JoinExists(p)
    \/ CreateAccess(p)
    \/ CreateMkdir(p)
    \/ CreateOwnerRead(p)
    \/ CreateOwnerInsert(p)
    \/ CreateOwnerUpdate(p)
    \/ JoinHasMembers(p)
    \/ MigrateOwnerRead(p)
    \/ MigrateOwnerInsert(p)
    \/ MigrateOwnerUpdate(p)
    \/ JoinRole(p)
    \/ JoinAdd(p)

SpecJoinRace == InitJoinRace /\ [][NextJoinRace]_vars

(***************************************************************************)
(* Claims on concurrent joins (SpecJoinRace).                              *)
(***************************************************************************)
JoinersDiffer == \A p, q \in Procs : p # q => procs[p].user # procs[q].user
JoinsDone == \A p \in Procs : procs[p].pc = "done"

\* C5: when different users join a vault with zero members concurrently,
\* the vault never holds two owner rows, and once all joins have returned
\* exactly one joiner was made owner while every other joiner received
\* permission-denied{join} and is not in the client set.
C5_OneOwnerPerEmptyVault ==
  JoinersDiffer =>
    /\ Cardinality(VaultOwners(members, RaceVault)) <= 1
    /\ JoinsDone =>
         /\ Cardinality({p \in Procs : procs[p].outcome = "joined"
                                        /\ procs[p].role = "owner"}) = 1
         /\ \A p \in Procs :
              procs[p].outcome # "joined" =>
                /\ procs[p].outcome = "permission-denied:join"
                /\ p \notin vaultClients[RaceVault]

(***************************************************************************)
(* SpecXferRace: transferOwnership and removeMember calls on one vault,   *)
(* interleaved at their awaits.                                            *)
(***************************************************************************)
InitXferRace ==
  /\ members \in {[EmptyTable EXCEPT ![RaceVault] = [u \in Users |-> IF u = 1 THEN "owner" ELSE r]] :
                    r \in {"admin", "editor"}}
  /\ lastCall = NoCall
  /\ txActive = FALSE
  /\ txSnap = EmptyTable
  /\ procs \in [Procs -> {Proc(op, IF op = "transfer" THEN "t_isOwner" ELSE "r_target", a, u) :
                            op \in {"transfer", "remove"}, a \in Users, u \in Users}]
  /\ crashed = FALSE
  /\ dirs = {getVaultPath(RaceVault)}
  /\ snapshot = [d \in DirNames |-> {}]
  /\ files = [d \in DirNames |-> {}]
  /\ InitEngine

xferRest == <<lastCall, fsVars, admVars, regVars, sockVars, histVars>>

\* transferOwnership: await isOwner(currentOwnerId, vaultId)
TransferIsOwner(p) ==
  /\ ~crashed
  /\ procs[p].pc = "t_isOwner"
  /\ IF isOwner(members, procs[p].user, RaceVault) THEN Goto(p, "t_role")
     ELSE Finish(p, "Only the current owner can transfer ownership")
  /\ UNCHANGED <<members, txActive, txSnap, crashed, xferRest>>

\* transferOwnership: await getUserVaultRole(newOwnerId, vaultId); self check.
TransferRole(p) ==
  /\ ~crashed
  /\ procs[p].pc = "t_role"
  /\ IF getUserVaultRole(members, procs[p].target, RaceVault) = NoRole
       THEN Finish(p, "New owner must be an existing member of the vault")
     ELSE IF procs[p].target = procs[p].user
       THEN Finish(p, "Cannot transfer ownership to yourself")
     ELSE Goto(p, "t_begin")
  /\ UNCHANGED <<members, txActive, txSnap, crashed, xferRest>>

\* db.serialize: BEGIN TRANSACTION and the demotion are queued together.
\* BEGIN has no callback: inside an open transaction its error is emitted
\* as an unhandled 'error' event, which ends the process; the open
\* transaction is then lost.
TransferBeginDemote(p) ==
  /\ ~crashed
  /\ procs[p].pc = "t_begin"
  /\ IF txActive
       THEN /\ crashed' = TRUE
            /\ members' = SqlRollback(members, txSnap)
            /\ txActive' = FALSE
            /\ UNCHANGED <<txSnap, procs>>
       ELSE /\ txActive' = TRUE
            /\ txSnap' = members
            /\ members' = SqlUpdate(members, RaceVault, procs[p].user, "admin")
            /\ Goto(p, "t_promote")
            /\ UNCHANGED crashed
  /\ UNCHANGED xferRest

\* UPDATE vault_members SET role = 'owner' ... user_id = newOwnerId
TransferPromote(p) ==
  /\ ~crashed
  /\ procs[p].pc = "t_promote"
  /\ members' = SqlUpdate(members, RaceVault, procs[p].target, "owner")
  /\ Goto(p, "t_commit")
  /\ UNCHANGED <<txActive, txSnap, crashed, xferRest>>

\* COMMIT; without an open transaction it fails: ROLLBACK, 'Database error'.
TransferCommit(p) ==
  /\ ~crashed
  /\ procs[p].pc = "t_commit"
  /\ IF txActive THEN Finish(p, "success") ELSE Finish(p, "Database error")
  /\ txActive' = FALSE
  /\ UNCHANGED <<members, txSnap, crashed, xferRest>>

\* removeMember: await getUserVaultRole(userId, vaultId); the owner stays.
RemoveTarget(p) ==
  /\ ~crashed
  /\ procs[p].pc = "r_target"
  /\ IF getUserVaultRole(members, procs[p].target, RaceVault) = "owner"
       THEN Finish(p, "Cannot remove vault owner. Transfer ownership first.")
     ELSE IF procs[p].user = procs[p].target
       THEN Finish(p, "Insufficient permissions to remove this member")
     ELSE Goto(p, "r_actor")
  /\ UNCHANGED <<members, txActive, txSnap, crashed, xferRest>>

\* canModifyMember: await getUserVaultRole(actorId, vaultId); admin at least.
RemoveActor(p) ==
  /\ ~crashed
  /\ procs[p].pc = "r_actor"
  /\ LET actorRole == getUserVaultRole(members, procs[p].user, RaceVault) IN
     IF actorRole = NoRole \/ ~hasRoleOrHigher(members, procs[p].user, RaceVault, "admin")
       THEN Finish(p, "Insufficient permissions to remove this member")
     ELSE procs' = [procs EXCEPT ![p].pc = "r_check", ![p].role = actorRole]
  /\ UNCHANGED <<members, txActive, txSnap, crashed, xferRest>>

\* canModifyMember: await getUserVaultRole(targetUserId, vaultId); strictly lower.
RemoveCheck(p) ==
  /\ ~crashed
  /\ procs[p].pc = "r_check"
  /\ LET targetRole == getUserVaultRole(members, procs[p].target, RaceVault) IN
     IF targetRole = NoRole \/ RoleHierarchy(procs[p].role) > RoleHierarchy(targetRole)
       THEN Goto(p, "r_delete")
     ELSE Finish(p, "Insufficient permissions to remove this member")
  /\ UNCHANGED <<members, txActive, txSnap, crashed, xferRest>>

\* DELETE FROM vault_members; this.changes === 0: 'Member not found'.
RemoveDelete(p) ==
  /\ ~crashed
  /\ procs[p].pc = "r_delete"
  /\ IF getUserVaultRole(members, procs[p].target, RaceVault) = NoRole
       THEN /\ Finish(p, "Member not found")
            /\ UNCHANGED members
       ELSE /\ members' = SqlDelete(members, RaceVault, procs[p].target)
            /\ Finish(p, "success")
  /\ UNCHANGED <<txActive, txSnap, crashed, xferRest>>

NextXferRace ==
  \E p \in Procs :
    \/ TransferIsOwner(p)
    \/ TransferRole(p)
    \/ TransferBeginDemote(p)
    \/ TransferPromote(p)
    \/ TransferCommit(p)
    \/ RemoveTarget(p)
    \/ RemoveActor(p)
    \/ RemoveCheck(p)
    \/ RemoveDelete(p)

SpecXferRace == InitXferRace /\ [][NextXferRace]_vars

(***************************************************************************)
(* Claims on interleaved ownership transfers (SpecXferRace).               *)
(***************************************************************************)

\* C9: every transferOwnership(V, new, old) that reports success, also when
\* interleaved with a removeMember of the target or with a second transfer
\* by the same owner, leaves V with exactly one owner, who is new, and
\* with old as admin.
C9_SuccessfulTransferOneOwner ==
  [][\A p \in Procs :
       (/\ procs[p].op = "transfer"
        /\ procs[p].pc # "done"
        /\ procs'[p].pc = "done"
        /\ procs'[p].outcome = "success") =>
         /\ VaultOwners(members', RaceVault) = {procs[p].target}
         /\ getUserVaultRole(members', procs[p].user, RaceVault) = "admin"]_vars

(***************************************************************************)
(* vault.ts: the vault store.  A directory per sanitized id; snapshot[d]  *)
(* is the Y.Doc state saved in d/_state.ydoc.                              *)
(***************************************************************************)
MapSet(map, k, val) == [x \in DOMAIN map \cup {k} |-> IF x = k THEN val ELSE map[x]]
MapDelete(map, k) == [x \in DOMAIN map \ {k} |-> map[x]]

\* A JavaScript Set, kept in insertion order.
SetHas(s, x) == \E i \in 1..Len(s) : s[i] = x
SetAdd(s, x) == IF SetHas(s, x) THEN s ELSE Append(s, x)
SetDelete(s, x) == SelectSeq(s, LAMBDA y : y # x)

\* The mutable state a handler threads through the calls it makes.
Store(m, ds, snap, fl, docs, dirty, pend, aw, cdocs, out) ==
  [m |-> m, dirs |-> ds, snap |-> snap, files |-> fl, docs |-> docs, dirty |-> dirty,
   pend |-> pend, aw |-> aw, cdocs |-> cdocs, out |-> out]

Now == Store(members, dirs, snapshot, files, vaultDocs, dirtyVaults, pendingWrites,
             vaultAwareness, clientDocs, <<>>)

\* createVault(vaultId, ownerId?): false when the directory is there; else
\* mkdir, save an empty Y.Doc, setVaultOwner (its result is not looked at).
createVault(st, vaultId, ownerId) ==
  IF vaultExists(st.dirs, vaultId) THEN st
  ELSE [st EXCEPT
          !.dirs = @ \cup {getVaultPath(vaultId)},
          !.snap = [@ EXCEPT ![getVaultPath(vaultId)] = {}],
          !.files = [@ EXCEPT ![getVaultPath(vaultId)] = {}],
          !.m = IF ownerId = NoUser THEN @
                ELSE setVaultOwner(@, vaultId, ownerId, "none").m]

\* loadVaultState: the saved state, or an empty doc on ENOENT.
loadVaultState(st, vaultId) ==
  IF vaultExists(st.dirs, vaultId) THEN st.snap[getVaultPath(vaultId)] ELSE {}

\* saveVaultState throws when the vault directory is gone.
saveVaultStateOk(st, vaultId) == vaultExists(st.dirs, vaultId)

saveVaultState(st, vaultId, doc) ==
  IF saveVaultStateOk(st, vaultId)
    THEN [st EXCEPT !.snap = [@ EXCEPT ![getVaultPath(vaultId)] = doc]]
    ELSE st

\* deleteVault: deleteAllVaultMembers(vaultId), fs.rm(vaultPath).
deleteVault(st, vaultId) ==
  [st EXCEPT !.m = deleteAllVaultMembers(@, vaultId),
             !.dirs = @ \ {getVaultPath(vaultId)},
             !.snap = [@ EXCEPT ![getVaultPath(vaultId)] = {}],
             !.files = [@ EXCEPT ![getVaultPath(vaultId)] = {}]]

(***************************************************************************)
(* collaboration.ts                                                        *)
(***************************************************************************)
\* MessageType
MessageTypeSYNC == 0
MessageTypeAWARENESS == 1
\* y-protocols/sync message types, as read back by readSyncMessage.
messageYjsSyncStep1 == 0
messageYjsSyncStep2 == 1
messageYjsUpdate == 2

SyncMessages ==
  {[type |-> MessageTypeSYNC, sync |-> messageYjsSyncStep1, atom |-> 1]}
    \cup {[type |-> MessageTypeSYNC, sync |-> k, atom |-> a] :
            k \in {messageYjsSyncStep2, messageYjsUpdate}, a \in Atoms}
    \cup {[type |-> MessageTypeAWARENESS, sync |-> messageYjsSyncStep1, atom |-> 1]}

\* socket.emit(ev, arg) to one socket.
Ev(to, ev, arg) == [to |-> to, ev |-> ev, arg |-> arg]
Emit(st, to, ev, arg) == [st EXCEPT !.out = Append(@, Ev(to, ev, arg))]
\* clients.forEach(client => client.emit(ev, arg)), in socket order.
EmitAllEcho(st, targets, ev, arg) ==
  [st EXCEPT !.out = @ \o [i \in 1..NumConns |-> Ev(i, ev, arg)]]

EmitAll(st, targets, ev, arg) ==
  [st EXCEPT !.out = @ \o SelectSeq([i \in 1..NumConns |-> Ev(i, ev, arg)],
                                    LAMBDA e : e.to \in targets)]

\* A sync-message with document data reaches the sockets that are connected:
\* the client integrates the state of the vault's doc.
Deliver(st, targets, vaultId) ==
  [st EXCEPT !.cdocs = [c \in Conns |->
                          IF c \in targets \cap connected THEN @[c] \cup st.docs[vaultId]
                          ELSE @[c]]]

\* Awareness states are keyed by Y.Doc client ids; socket.io ids are another
\* id space.  The server's Awareness holds the server doc's own state.
ServerClientId == 0
ClientId(c) == c
SocketId(c) == 0 - c

\* getOrCreateAwareness: new Awareness(doc) sets the local state.
getOrCreateAwareness(st, vaultId) ==
  IF vaultId \in DOMAIN st.aw THEN st
  ELSE [st EXCEPT !.aw = MapSet(@, vaultId, {ServerClientId})]

\* awareness.on('change'): the changed states go to every client of the vault.
awarenessChange(st, vaultId, clients) ==
  IF clients[vaultId] # {} THEN EmitAll(st, clients[vaultId], "sync-message", "awareness")
  ELSE st

\* awarenessProtocol.applyAwarenessUpdate: a state for a new client id is a change.
applyAwarenessUpdate(st, vaultId, id, clients) ==
  IF id \in st.aw[vaultId] THEN st
  ELSE awarenessChange([st EXCEPT !.aw = [@ EXCEPT ![vaultId] = @ \cup {id}]],
                       vaultId, clients)

\* awarenessProtocol.removeAwarenessStates: the ids that have a state are
\* removed, which is a change.
removeAwarenessStates(st, vaultId, ids, clients) ==
  IF ids \cap st.aw[vaultId] = {} THEN st
  ELSE awarenessChange([st EXCEPT !.aw = [@ EXCEPT ![vaultId] = @ \ ids]],
                       vaultId, clients)

\* getOrCreateDoc: createVault(vaultId) when the directory is missing, load
\* the saved state, register the doc.
getOrCreateDoc(st, vaultId) ==
  IF vaultId \in DOMAIN st.docs THEN st
  ELSE LET s1 == createVault(st, vaultId, NoUser) IN
       [s1 EXCEPT !.docs = MapSet(@, vaultId, loadVaultState(s1, vaultId))]

\* Y.applyUpdate on a registered doc: a new atom is integrated, the doc's
\* 'update' listener marks the vault dirty and the files observer schedules
\* the file write.
applyUpdate(st, vaultId, atom) ==
  IF atom \in st.docs[vaultId] THEN st
  ELSE [st EXCEPT !.docs = [@ EXCEPT ![vaultId] = @ \cup {atom}],
                  !.dirty = SetAdd(@, vaultId),
                  !.pend = [@ EXCEPT ![vaultId] = @ \cup {atom}]]

\* syncProtocol.readSyncMessage: SyncStep1 writes the SyncStep2 reply;
\* SyncStep2 and Update are applied to the doc.
readSyncMessage(st, socket, vaultId, msg) ==
  IF msg.sync = messageYjsSyncStep1
    THEN Deliver(Emit(st, socket, "sync-message", "step2"), {socket}, vaultId)
    ELSE applyUpdate(st, vaultId, msg.atom)

\* handleSyncMessage(socket, vaultId, message, user, userRole)
handleSyncMessage(st, socket, vaultId, msg, userRole, clients) ==
  LET s1 == getOrCreateAwareness(getOrCreateDoc(st, vaultId), vaultId) IN
  IF msg.type = MessageTypeSYNC
    THEN LET s2 == readSyncMessage(s1, socket, vaultId, msg) IN
         IF msg.sync = 2
           THEN IF userRole = "viewer"
                  THEN Emit(s2, socket, "permission-denied", "write")
                  ELSE Deliver(EmitAll([s2 EXCEPT !.dirty = SetAdd(@, vaultId)],
                                       clients[vaultId] \ {socket}, "sync-message", "update"),
                               clients[vaultId] \ {socket}, vaultId)
           ELSE s2
    ELSE EmitAll(applyAwarenessUpdate(s1, vaultId, ClientId(socket), clients),
                 clients[vaultId] \ {socket}, "sync-message", "awareness")

\* Every 'sync-message' listener of the socket handles the message, in the
\* order the listeners were installed.
RECURSIVE handleAll(_, _, _, _, _, _)
handleAll(st, socket, listeners, msg, userRole, clients) ==
  IF listeners = <<>> THEN st
  ELSE handleAll(handleSyncMessage(st, socket, Head(listeners), msg, userRole, clients),
                 socket, Tail(listeners), msg, userRole, clients)

\* getVaultFileList: the keys of the doc's files map, sorted.
filePaths(doc) ==
  CHOOSE keys \in [1..Cardinality(doc) -> doc] : \A a \in doc : \E i \in DOMAIN keys : keys[i] = a

getVaultFileList(st, vaultId) ==
  SortSeq(filePaths(st.docs[vaultId]), LAMBDA a, b : a < b)

sendInitialSyncSwapped(st, socket, vaultId) ==
  LET s1 == getOrCreateAwareness(getOrCreateDoc(st, vaultId), vaultId)
      s2 == Deliver(Emit(s1, socket, "sync-message", "step2"), {socket}, vaultId)
      s3 == Emit(s2, socket, "sync-message", "step1")
  IN IF s3.aw[vaultId] # {} THEN Emit(s3, socket, "sync-message", "awareness") ELSE s3

\* sendInitialSync: SyncStep1, then SyncStep2 with the full document, then
\* the awareness states when there is one.
sendInitialSync(st, socket, vaultId) ==
  LET s1 == getOrCreateAwareness(getOrCreateDoc(st, vaultId), vaultId)
      s2 == Emit(s1, socket, "sync-message", "step1")
      s3 == Deliver(Emit(s2, socket, "sync-message", "step2"), {socket}, vaultId)
  IN IF s3.aw[vaultId] # {} THEN Emit(s3, socket, "sync-message", "awareness") ELSE s3

\* saveVaultState(vaultId, doc); dirtyVaults.delete(vaultId), in a try block.
saveAndClean(st, vaultId) ==
  IF vaultId \in DOMAIN st.docs /\ saveVaultStateOk(st, vaultId)
    THEN [saveVaultState(st, vaultId, st.docs[vaultId]) EXCEPT !.dirty = SetDelete(@, vaultId)]
    ELSE st

\* saveAndCleanupVault, called with no client left: save, then drop the doc.
saveAndCleanupVault(st, vaultId) ==
  IF vaultId \in DOMAIN st.docs
    THEN [saveVaultState(st, vaultId, st.docs[vaultId]) EXCEPT
            !.docs = MapDelete(@, vaultId), !.aw = MapDelete(@, vaultId),
            !.dirty = SetDelete(@, vaultId)]
    ELSE st

\* The sockets of the socket.io room vault:<id>.
Room(clients, conn, vaultId) == clients[vaultId] \cap conn

\* handleLeaveVault up to removeClientFromVault: save a dirty vault, drop the
\* socket from the client set, and with no client left save and drop the
\* doc; thrown is TRUE when that last save fails.
handleLeaveVault(st, clients, socket, vaultId) ==
  LET s0 == IF vaultId \in DOMAIN st.aw
              THEN removeAwarenessStates(st, vaultId, {SocketId(socket)}, clients)
              ELSE st
      s1 == IF SetHas(s0.dirty, vaultId) THEN saveAndClean(s0, vaultId) ELSE s0
      rest == clients[vaultId] \ {socket}
      last == clients[vaultId] # {} /\ rest = {}
      thrown == last /\ vaultId \in DOMAIN s1.docs /\ ~saveVaultStateOk(s1, vaultId)
  IN [st |-> IF last /\ ~thrown THEN saveAndCleanupVault(s1, vaultId) ELSE s1,
      clients |-> [clients EXCEPT ![vaultId] = rest],
      thrown |-> thrown]

Commit(st) ==
  /\ members' = st.m
  /\ dirs' = st.dirs
  /\ snapshot' = st.snap
  /\ files' = st.files
  /\ vaultDocs' = st.docs
  /\ dirtyVaults' = st.dirty
  /\ pendingWrites' = st.pend
  /\ vaultAwareness' = st.aw
  /\ clientDocs' = st.cdocs
  /\ emitted' = st.out

\* One more event is handled.
Tick == events < MaxEvents /\ events' = events + 1

Op(op, conn, vaultId, user) == [op |-> op, conn |-> conn, vaultId |-> vaultId, user |-> user]

(***************************************************************************)
(* Spec: socket events and HTTP routes, each handler run to completion.   *)
(***************************************************************************)
\* socket.on('authenticate'): verifyToken gives the token's user or null.
\* authenticatedSockets.get(socket.id)
socketUserAny(c) == IF authenticatedSockets[c] = NoUser THEN 1 ELSE authenticatedSockets[c]
socketUser(c) == authenticatedSockets[c]

Authenticate(c) ==
  \E u \in Users \cup {NoUser} :
    /\ c \in connected
    /\ Tick
    /\ authenticatedSockets' =
         IF u # NoUser THEN [authenticatedSockets EXCEPT ![c] = u] ELSE authenticatedSockets
    /\ emitted' = <<Ev(c, "authenticated", IF u # NoUser THEN "success" ELSE "Invalid token")>>
    /\ lastOp' = Op("authenticate", c, NoVault, u)
    /\ UNCHANGED <<permVars, txVars, admVars, fsVars, regVars, connected, sockVault, sockRole,
                   handlers, apiCalls>>

\* socket.on('join-vault') with handleJoinVault.
JoinVault(c) ==
  \E v \in VaultIds :
    LET user == socketUser(c) IN
    /\ c \in connected
    /\ Tick
    /\ Len(handlers[c]) < MaxHandlers
    /\ lastOp' = Op("join", c, v, user)
    /\ UNCHANGED <<lastCall, txVars, admVars, connected, authenticatedSockets, apiCalls>>
    /\ IF user = NoUser
         THEN /\ emitted' = <<Ev(c, "error", "Not authenticated")>>
              /\ UNCHANGED <<members, fsVars, regVars, sockVault, sockRole, handlers>>
         ELSE
           LET s0 == createVault(Now, v, user)
               hasMembers == vaultHasMembers(s0.m, v)
               ownerResult == setVaultOwner(s0.m, v, user, "none")
               s1 == IF hasMembers THEN s0 ELSE [s0 EXCEPT !.m = ownerResult.m]
               userRole == IF hasMembers THEN getUserVaultRole(s0.m, user, v) ELSE "owner"
           IN
           IF ~hasMembers /\ ~ownerResult.ok
             THEN /\ Commit(Emit(s1, c, "error", "Failed to set vault ownership"))
                  /\ UNCHANGED <<vaultClients, sockVault, sockRole, handlers>>
           ELSE IF hasMembers /\ userRole = NoRole
             THEN /\ Commit(Emit(s1, c, "permission-denied", "join"))
                  /\ UNCHANGED <<vaultClients, sockVault, sockRole, handlers>>
           ELSE
             LET clients == [vaultClients EXCEPT ![v] = @ \cup {c}]
                 sa == Emit(s1, c, "addClientToVault", "registry")
                 sd == getOrCreateDoc(sa, v)
                 s2 == Emit(sd, c, "file-list", ToString(getVaultFileList(sd, v)))
                 s3 == sendInitialSync(s2, c, v)
                 s4 == Emit(s3, c, "vault-role", userRole)
                 s5 == saveAndClean(s4, v)
                 s6 == EmitAll(s5, Room(clients, connected, v) \ {c}, "user-joined", userRole)
             IN /\ Commit(Emit(s6, c, "vault-joined", userRole))
                /\ vaultClients' = clients
                /\ sockVault' = [sockVault EXCEPT ![c] = v]
                /\ sockRole' = [sockRole EXCEPT ![c] = userRole]
                /\ handlers' = [handlers EXCEPT ![c] = Append(@, v)]

\* The client's side of a SyncStep2 or Update: the update it sends is in its doc.
clientEdit(st, c, msg) ==
  IF msg.type = MessageTypeSYNC /\ msg.sync # messageYjsSyncStep1
    THEN [st EXCEPT !.cdocs = [@ EXCEPT ![c] = @ \cup {msg.atom}]]
    ELSE st

\* socket.on('sync-message'): the listeners installed by handleJoinVault.
SyncMessage(c) ==
  \E msg \in SyncMessages :
    /\ c \in connected
    /\ Tick
    /\ handlers[c] # <<>>
    /\ Commit(handleAll(clientEdit(Now, c, msg), c, handlers[c], msg, sockRole[c],
                        vaultClients))
    /\ lastOp' = [op |-> "sync", conn |-> c, vaultId |-> NoVault,
                  user |-> authenticatedSockets[c], msg |-> msg, role |-> sockRole[c]]
    /\ UNCHANGED <<lastCall, txVars, admVars, vaultClients, sockVars, apiCalls>>

\* socket.on('leave-vault')
LeaveVault(c) ==
  \E v \in VaultIds :
    LET user == socketUser(c)
        left == handleLeaveVault(Now, vaultClients, c, v)
    IN
    /\ c \in connected
    /\ Tick
    /\ lastOp' = Op("leave", c, v, user)
    /\ UNCHANGED <<lastCall, txVars, admVars, connected, authenticatedSockets, sockVault,
                   sockRole, apiCalls>>
    /\ IF user = NoUser
         THEN /\ emitted' = <<>>
              /\ UNCHANGED <<members, fsVars, regVars, handlers>>
         ELSE IF left.thrown
           THEN /\ Commit(left.st)
                /\ vaultClients' = left.clients
                /\ UNCHANGED handlers
         ELSE /\ Commit(Emit(EmitAll(left.st, Room(left.clients, connected, v) \ {c},
                                     "user-left", "left"),
                             c, "vault-left", "left"))
              /\ vaultClients' = left.clients
              /\ handlers' = [handlers EXCEPT ![c] = <<>>]

\* socket.on('disconnect') with handleDisconnect.
Disconnect(c) ==
  LET user == socketUser(c)
      v == sockVault[c]
      left == handleLeaveVault(Now, vaultClients, c, v)
  IN
  /\ c \in connected
  /\ Tick
  /\ connected' = connected \ {c}
  /\ lastOp' = Op("disconnect", c, v, user)
  /\ handlers' = [handlers EXCEPT ![c] = <<>>]
  /\ UNCHANGED <<lastCall, txVars, admVars, sockVault, sockRole, apiCalls>>
  /\ IF user = NoUser
       THEN /\ emitted' = <<>>
            /\ UNCHANGED <<members, fsVars, regVars, authenticatedSockets>>
     ELSE IF v = NoVault
       THEN /\ emitted' = <<>>
            /\ authenticatedSockets' = [authenticatedSockets EXCEPT ![c] = NoUser]
            /\ UNCHANGED <<members, fsVars, regVars>>
     ELSE IF left.thrown
       THEN /\ Commit(left.st)
            /\ vaultClients' = left.clients
            /\ UNCHANGED authenticatedSockets
     ELSE /\ Commit(EmitAll(left.st, Room(left.clients, connected \ {c}, v), "user-left", "left"))
          /\ vaultClients' = left.clients
          /\ authenticatedSockets' = [authenticatedSockets EXCEPT ![c] = NoUser]

\* initializeCollaboration: the SAVE_INTERVAL timer saves every dirty vault.
\* for (const vaultId of dirtyVaults): in the Set's insertion order.
RECURSIVE saveDirty(_, _)
saveDirty(st, todo) ==
  IF todo = <<>> THEN st
  ELSE saveDirty(saveAndClean(st, Head(todo)), Tail(todo))

AutoSave ==
  /\ dirtyVaults # <<>>
  /\ Tick
  /\ Commit(saveDirty(Now, dirtyVaults))
  /\ lastOp' = Op("autosave", 0, NoVault, NoUser)
  /\ UNCHANGED <<lastCall, txVars, admVars, vaultClients, sockVars, apiCalls>>

\* setupFileMapObserver: the debounce timer of one scheduled file write fires.
\* writeVaultFile: mkdir -p of the file's directory, then the atomic write.
writeVaultFile(st, vaultId, a) ==
  [st EXCEPT !.dirs = @ \cup {getVaultPath(vaultId)},
             !.snap = [@ EXCEPT ![getVaultPath(vaultId)] =
                         IF vaultExists(st.dirs, vaultId) THEN @ ELSE {}],
             !.files = [@ EXCEPT ![getVaultPath(vaultId)] =
                          (IF vaultExists(st.dirs, vaultId) THEN @ ELSE {}) \cup {a}]]

FileWriteTimer ==
  \E v \in VaultIds : \E a \in pendingWrites[v] :
    /\ Tick
    /\ Commit([writeVaultFile(Now, v, a) EXCEPT !.pend = [@ EXCEPT ![v] = @ \ {a}]])
    /\ lastOp' = Op("file-write", 0, v, NoUser)
    /\ UNCHANGED <<lastCall, txVars, admVars, vaultClients, sockVars, apiCalls>>

(***************************************************************************)
(* index.ts: HTTP routes.  The requesting user is a user id, or System    *)
(* for a server admin (req.user.isAdmin).                                  *)
(***************************************************************************)
ApiCall(op, actor, vaultId, status, st) ==
  /\ Tick
  /\ apiCalls < MaxApiCalls
  /\ apiCalls' = apiCalls + 1
  /\ Commit(st)
  /\ lastOp' = [op |-> op, conn |-> 0, vaultId |-> vaultId, user |-> actor, status |-> status]
  /\ UNCHANGED <<lastCall, txVars, vaultClients, sockVars>>

Api(op, actor, vaultId, status, st) ==
  /\ ApiCall(op, actor, vaultId, status, st)
  /\ UNCHANGED admVars

\* POST /api/vault/create
ApiCreateVault ==
  \E u \in Users, v \in VaultIds :
    IF ~ValidVaultId(v) THEN Api("create", u, v, 400, Now)
    ELSE IF vaultExists(dirs, v) THEN Api("create", u, v, 409, Now)
    ELSE Api("create", u, v, 201, createVault(Now, v, u))

\* DELETE /api/vault/:id
ApiDeleteVault ==
  \E a \in Actors, v \in VaultIds :
    IF ~vaultExists(dirs, v) THEN Api("delete", a, v, 404, Now)
    ELSE IF a # System /\ ~isOwner(members, a, v) THEN Api("delete", a, v, 403, Now)
    ELSE Api("delete", a, v, 200, deleteVault(Now, v))

\* POST /api/vault/:id/members
ApiAddMember ==
  \E a \in Actors, v \in VaultIds, u \in Users, r \in {"admin", "editor", "viewer"} :
    LET result == addMember(members, v, u, r, a, "none") IN
    IF ~vaultExists(dirs, v) THEN Api("addMember", a, v, 404, Now)
    ELSE IF u \notin users THEN Api("addMember", a, v, 404, Now)
    ELSE IF result.ok THEN Api("addMember", a, v, 201, [Now EXCEPT !.m = result.m])
    ELSE Api("addMember", a, v, 400, Now)

\* PUT /api/vault/:id/members/:userId
ApiUpdateMemberRole ==
  \E a \in Users, v \in VaultIds, u \in Users, r \in {"admin", "editor", "viewer"} :
    LET result == updateMemberRole(members, v, u, r, a, "none") IN
    IF ~vaultExists(dirs, v) THEN Api("updateMemberRole", a, v, 404, Now)
    ELSE IF result.ok THEN Api("updateMemberRole", a, v, 200, [Now EXCEPT !.m = result.m])
    ELSE Api("updateMemberRole", a, v, 400, Now)

\* DELETE /api/vault/:id/members/:userId
ApiRemoveMember ==
  \E a \in Users, v \in VaultIds, u \in Users :
    LET result == removeMember(members, v, u, a, "none") IN
    IF ~vaultExists(dirs, v) THEN Api("removeMember", a, v, 404, Now)
    ELSE IF result.ok THEN Api("removeMember", a, v, 200, [Now EXCEPT !.m = result.m])
    ELSE Api("removeMember", a, v, 400, Now)

Next ==
  \/ \E c \in Conns : Authenticate(c)
  \/ \E c \in Conns : JoinVault(c)
  \/ \E c \in Conns : SyncMessage(c)
  \/ \E c \in Conns : LeaveVault(c)
  \/ \E c \in Conns : Disconnect(c)
  \/ AutoSave
  \/ FileWriteTimer
  \/ ApiCreateVault
  \/ ApiDeleteVault
  \/ ApiAddMember
  \/ ApiUpdateMemberRole
  \/ ApiRemoveMember

Spec == InitCommon /\ [][Next]_vars

(***************************************************************************)
(* backup.ts: snapshots of a vault directory under data/backups/{dir}.     *)
(* A backup name is <<0, t>> for a timestamp (or a date, for daily) and    *)
(* <<1, t>> for "pre-restore-" followed by a timestamp: names compare as   *)
(* strings do, and "pre-restore-..." sorts after every timestamp.          *)
(***************************************************************************)
HOURLY_RETENTION == 24
DAILY_RETENTION == 7

BackupTypes == {"hourly", "daily"}
getBackupTimestamp(t) == <<0, t>>
getDateString(t) == <<0, t \div InstantsPerDay>>
PreRestoreName(t) == <<1, t>>
NameBefore(a, b) == a[1] < b[1] \/ (a[1] = b[1] /\ a[2] < b[2])

\* The contents of a vault directory: _state.ydoc and the files.
DirContent(snap, fl, d) == [ydoc |-> snap[d], files |-> fl[d]]

\* copyDirectory(src, dest): dest is created when missing; entries of src
\* overwrite those of dest, other entries of dest stay.
copyDirectory(src, bks, name) ==
  IF name \in DOMAIN bks
    THEN MapSet(bks, name, [ydoc |-> src.ydoc, files |-> bks[name].files \cup src.files])
    ELSE MapSet(bks, name, src)

\* createSnapshot(vaultId, type): throws when the vault directory is missing;
\* an existing daily backup is kept, an existing hourly one is replaced.
createSnapshot(bk, ds, snap, fl, vaultId, type, t) ==
  LET d == getVaultPath(vaultId)
      name == IF type = "daily" THEN getDateString(t) ELSE getBackupTimestamp(t)
  IN IF ~vaultExists(ds, vaultId) THEN [ok |-> FALSE, bk |-> bk]
     ELSE IF type = "daily" /\ name \in DOMAIN bk[d].daily THEN [ok |-> TRUE, bk |-> bk]
     ELSE [ok |-> TRUE,
           bk |-> [bk EXCEPT ![d][type] =
                     copyDirectory(DirContent(snap, fl, d), MapDelete(@, name), name)]]

\* The names that are among the `retention` newest of the directory.
Newest(names, retention) ==
  {n \in names : Cardinality({m \in names : NameBefore(n, m)}) < retention}

Keep(bks, names) == [n \in names |-> bks[n]]

\* pruneOldBackups(vaultId)
pruneOldBackups(bk, d) ==
  [bk EXCEPT ![d].hourly = Keep(@, Newest(DOMAIN @, HOURLY_RETENTION)),
             ![d].daily = Keep(@, Newest(DOMAIN @, DAILY_RETENTION))]

\* restoreFromBackup(vaultId, timestamp, type): the pre-restore copy of the
\* live directory is made first, then the directory is removed and the
\* backup copied in its place.
restoreFromBackup(bk, ds, snap, fl, vaultId, name, type, t) ==
  LET d == getVaultPath(vaultId)
      bk1 == IF vaultExists(ds, vaultId)
               THEN [bk EXCEPT ![d].hourly =
                       copyDirectory(DirContent(snap, fl, d), @, PreRestoreName(t))]
               ELSE bk
  IN IF name \notin DOMAIN bk[d][type]
       THEN [ok |-> FALSE, bk |-> bk, dirs |-> ds, snap |-> snap, files |-> fl]
       ELSE [ok |-> TRUE, bk |-> bk1, dirs |-> ds \cup {d},
             snap |-> [snap EXCEPT ![d] = bk1[d][type][name].ydoc],
             files |-> [fl EXCEPT ![d] = bk1[d][type][name].files]]

\* runHourlyBackup: for every vault directory the hourly snapshot, the
\* pruning, then the daily snapshot when today's is missing.
RECURSIVE runHourlyBackup(_, _, _, _, _)
runHourlyBackup(bk, todo, snap, fl, t) ==
  IF todo = {} THEN bk
  ELSE LET d == CHOOSE x \in todo : TRUE
           b1 == createSnapshot(bk, {d}, snap, fl, d, "hourly", t).bk
           b2 == pruneOldBackups(b1, d)
           b3 == createSnapshot(b2, {d}, snap, fl, d, "daily", t).bk
       IN runHourlyBackup(b3, todo \ {d}, snap, fl, t)

\* A second of wall-clock time passes.
Elapse ==
  /\ clock < MaxBackupClock
  /\ clock' = clock + 1
  /\ lastOp' = Op("elapse", 0, NoVault, NoUser)
  /\ UNCHANGED <<members, lastCall, txVars, regVars, fsVars, sockVars,
                 emitted, apiCalls, events, backups, users, fileCall, objVars>>

\* initializeBackupScheduler: the initial run, shortly after the start.
InitialBackup ==
  /\ events = 0 /\ clock = 0
  /\ backups' = runHourlyBackup(backups, dirs, snapshot, files, clock)
  /\ lastOp' = Op("runHourlyBackup", 0, NoVault, NoUser)
  /\ UNCHANGED <<members, lastCall, txVars, regVars, fsVars, sockVars,
                 emitted, apiCalls, events, clock, users, fileCall, objVars>>

\* initializeBackupScheduler: HOURLY_INTERVAL_MS has passed and the interval
\* timer runs runHourlyBackup.
HourlyInterval ==
  /\ clock < MaxClock
  /\ clock' = clock + 1
  /\ backups' = runHourlyBackup(backups, dirs, snapshot, files, clock')
  /\ lastOp' = Op("runHourlyBackup", 0, NoVault, NoUser)
  /\ UNCHANGED <<members, lastCall, txVars, regVars, fsVars, sockVars,
                 emitted, apiCalls, events, users, fileCall, objVars>>

BackupOp(op, user, vaultId, status, type, name) ==
  [op |-> op, conn |-> 0, vaultId |-> vaultId, user |-> user, status |-> status,
   type |-> type, name |-> name]

\* An HTTP route of the backup API; the caller is any authenticated user.
BackupApi(op, user, vaultId, status, type, name, st, bk) ==
  /\ Tick
  /\ apiCalls < MaxApiCalls
  /\ apiCalls' = apiCalls + 1
  /\ Commit(st)
  /\ backups' = bk
  /\ lastOp' = BackupOp(op, user, vaultId, status, type, name)
  /\ UNCHANGED <<lastCall, txVars, vaultClients, sockVars, clock, users, fileCall, objVars>>

\* GET /api/vault/:id/backups
ApiListBackups ==
  \E u \in Users, v \in VaultIds :
    IF ~vaultExists(dirs, v)
      THEN BackupApi("listBackups", u, v, 404, "none", <<>>, Now, backups)
      ELSE BackupApi("listBackups", u, v, 200, "none", <<>>, Now, backups)

\* POST /api/vault/:id/backup
ApiBackup ==
  \E u \in Users, v \in VaultIds :
    IF ~vaultExists(dirs, v)
      THEN BackupApi("backup", u, v, 404, "hourly", <<>>, Now, backups)
      ELSE BackupApi("backup", u, v, 200, "hourly", getBackupTimestamp(clock), Now,
                     createSnapshot(backups, dirs, snapshot, files, v, "hourly", clock).bk)

\* The timestamps a restore request names: those of the existing backups and
\* one of no backup.
RestoreNames(v, type) ==
  (IF type \in BackupTypes THEN DOMAIN backups[getVaultPath(v)][type] ELSE {})
    \cup {getBackupTimestamp(MaxClock + 1)}

\* POST /api/vault/:id/restore
ApiRestore ==
  \E u \in Users, v \in VaultIds, type \in BackupTypes \cup {"weekly"} :
    \E name \in RestoreNames(v, type) :
      IF type \notin BackupTypes
        THEN BackupApi("restore", u, v, 400, type, name, Now, backups)
        ELSE LET r == restoreFromBackup(backups, dirs, snapshot, files, v, name, type, clock)
             IN IF r.ok
                  THEN BackupApi("restore", u, v, 200, type, name,
                                 [Now EXCEPT !.dirs = r.dirs, !.snap = r.snap,
                                             !.files = r.files], r.bk)
                  ELSE BackupApi("restore", u, v, 500, type, name, Now, backups)

\* ---------------------------------------------------------------------------
\* The server started over an existing database and vault directory: vault
\* "ab" was created through the API by user 1, the other users hold any role
\* or none, and a snapshot of earlier sessions is on disk.  Clients name "ab".
InitSeeded(paths) ==
  /\ \E r \in [Users \ {1} -> (Roles \ {"owner"}) \cup {NoRole}] :
        members = [EmptyTable EXCEPT ![VaultAB] =
                     [u \in Users |-> IF u = 1 THEN "owner" ELSE r[u]]]
  /\ lastCall = NoCall
  /\ txActive = FALSE
  /\ txSnap = EmptyTable
  /\ procs = <<>>
  /\ crashed = FALSE
  /\ dirs = {getVaultPath(VaultAB)}
  /\ \E doc \in SUBSET paths :
       /\ snapshot = [d \in DirNames |-> IF d = getVaultPath(VaultAB) THEN doc ELSE {}]
       /\ files = snapshot
  /\ InitEngine

InitVault == InitSeeded(Atoms)

OnVaultAB == lastOp'.vaultId \in {VaultAB, NoVault}

NextVault ==
  \/ \E c \in Conns : Authenticate(c) /\ OnVaultAB
  \/ \E c \in Conns : JoinVault(c) /\ OnVaultAB
  \/ \E c \in Conns : SyncMessage(c) /\ OnVaultAB
  \/ \E c \in Conns : LeaveVault(c) /\ OnVaultAB
  \/ \E c \in Conns : Disconnect(c) /\ OnVaultAB
  \/ AutoSave /\ OnVaultAB
  \/ FileWriteTimer /\ OnVaultAB
  \/ ApiCreateVault /\ OnVaultAB
  \/ ApiDeleteVault /\ OnVaultAB
  \/ ApiAddMember /\ OnVaultAB
  \/ ApiUpdateMemberRole /\ OnVaultAB
  \/ ApiRemoveMember /\ OnVaultAB

SpecVault == InitVault /\ [][NextVault]_vars

(***************************************************************************)
(* auth.ts: the users table and DELETE /api/admin/users/:id.               *)
(***************************************************************************)
\* PRAGMA foreign_keys of the connection: initializeAuth issues journal_mode
\* and synchronous only, so SQLite's default, OFF, stays in force.
PragmaForeignKeys == FALSE

\* DELETE FROM users WHERE id = ?, on the rows of vault_members: with foreign
\* keys enforced, ON DELETE CASCADE removes the rows of the user.
SqlDeleteUser(m, id) ==
  IF PragmaForeignKeys /\ id \in Users
    THEN [v \in VaultIds |-> [u \in Users |-> IF u = id THEN NoRole ELSE m[v][u]]]
    ELSE m

\* deleteUser(id): true when a row of users was deleted.
deleteUser(st, us, id) ==
  [deleted |-> id \in us, users |-> us \ {id},
   st |-> IF id \in us THEN [st EXCEPT !.m = SqlDeleteUser(@, id)] ELSE st]

\* DELETE /api/admin/users/:id, behind adminMiddleware.
ApiDeleteUser ==
  \E id \in Users \cup {NumUsers + 1} :
    LET r == deleteUser(Now, users, id) IN
    /\ Tick
    /\ apiCalls < MaxApiCalls
    /\ apiCalls' = apiCalls + 1
    /\ Commit(r.st)
    /\ users' = r.users
    /\ lastOp' = [op |-> "deleteUser", conn |-> 0, vaultId |-> NoVault, user |-> System,
                  status |-> IF r.deleted THEN 200 ELSE 404, target |-> id]
    /\ UNCHANGED <<lastCall, txVars, vaultClients, sockVars, backups, clock, fileCall, objVars>>

NextUsers ==
  \/ ApiDeleteUser
  \/ ApiAddMember /\ OnVaultAB
  \/ ApiUpdateMemberRole /\ OnVaultAB
  \/ ApiRemoveMember /\ OnVaultAB

SpecUsers == InitVault /\ [][NextUsers]_vars

\* C28: after deleteUser(u) has succeeded, no vault has a membership row
\* whose user is u.
C28_DeleteUserRemovesMemberships ==
  [][(lastOp'.op = "deleteUser" /\ events' = events + 1 /\ lastOp'.status = 200) =>
       \A v \in VaultIds : members'[v][lastOp'.target] = NoRole]_vars

(***************************************************************************)
(* The SIGINT / SIGTERM handler and the restart of the server.             *)
(***************************************************************************)
\* shutdown: for (const vaultId of vaultDocs.keys()) saveAndCleanupVault, a
\* throw of the save caught per vault.
RECURSIVE shutdown(_, _)
shutdown(st, todo) ==
  IF todo = {} THEN st
  ELSE LET vaultId == CHOOSE v \in todo : TRUE IN
       shutdown(saveVaultState(st, vaultId, st.docs[vaultId]), todo \ {vaultId})

\* stopBackupScheduler(); await shutdown(); process.exit(0): the snapshots are
\* saved, then the process ends with its documents, timers and sockets; the
\* restarted server has none of them, and the clients connect again.
Shutdown ==
  /\ Tick
  /\ snapshot' = shutdown(Now, DOMAIN vaultDocs).snap
  /\ vaultDocs' = EmptyMap
  /\ dirtyVaults' = <<>>
  /\ vaultClients' = [v \in VaultIds |-> {}]
  /\ pendingWrites' = [v \in VaultIds |-> {}]
  /\ vaultAwareness' = EmptyMap
  /\ connected' = Conns
  /\ authenticatedSockets' = [c \in Conns |-> NoUser]
  /\ sockVault' = [c \in Conns |-> NoVault]
  /\ sockRole' = [c \in Conns |-> NoRole]
  /\ handlers' = [c \in Conns |-> <<>>]
  /\ emitted' = <<>>
  /\ lastOp' = Op("shutdown", 0, NoVault, NoUser)
  /\ UNCHANGED <<members, lastCall, txVars, dirs, files, admVars, clientDocs, apiCalls>>

NextShutdown ==
  \/ \E c \in Conns : Authenticate(c) /\ OnVaultAB
  \/ \E c \in Conns : JoinVault(c) /\ OnVaultAB
  \/ \E c \in Conns : SyncMessage(c) /\ OnVaultAB
  \/ \E c \in Conns : LeaveVault(c) /\ OnVaultAB
  \/ AutoSave /\ OnVaultAB
  \/ FileWriteTimer /\ OnVaultAB
  \/ Shutdown

SpecShutdown == InitVault /\ [][NextShutdown]_vars

\* C27: after a clean shutdown and restart, every update held by the saved
\* snapshot of a vault is also in the files of the vault directory: what is
\* materialized from the loaded snapshot equals the files on disk.
C27_SnapshotMatchesFilesAfterShutdown ==
  lastOp.op = "shutdown" => \A d \in dirs : snapshot[d] \subseteq files[d]

(***************************************************************************)
(* SpecDeleteRace: DELETE /api/vault/:id interleaved at its awaits with a  *)
(* join-vault or with POST /api/vault/:id/members.                         *)
(***************************************************************************)
InitDeleteRace ==
  /\ \E r \in {NoRole, "editor"} :
       members = [EmptyTable EXCEPT ![RaceVault] = [u \in Users |-> IF u = 1 THEN "owner" ELSE r]]
  /\ lastCall = NoCall
  /\ txActive = FALSE
  /\ txSnap = EmptyTable
  /\ \E deleter \in {1, System} :
       \E other \in [Procs \ {1} ->
                       {Proc("join", "j_exists", u, NoUser) : u \in Users}
                         \cup {Proc("addMember", "a_exists", a, 2) : a \in {1, System}}] :
         procs = [p \in Procs |->
                    IF p = 1 THEN Proc("delete", "d_exists", deleter, NoUser) ELSE other[p]]
  /\ crashed = FALSE
  /\ dirs = {getVaultPath(RaceVault)}
  /\ snapshot = [d \in DirNames |-> {}]
  /\ files = [d \in DirNames |-> {}]
  /\ InitEngine

\* DELETE /api/vault/:id: if (!(await vaultExists(vaultId))) 404
DeleteExists(p) ==
  /\ procs[p].pc = "d_exists"
  /\ IF vaultExists(dirs, RaceVault) THEN Goto(p, "d_owner") ELSE Finish(p, "404")
  /\ UNCHANGED <<members, txActive, txSnap, crashed, dirs, raceRest>>

\* DELETE /api/vault/:id: server admins bypass, else isOwner or 403.
DeleteOwner(p) ==
  /\ procs[p].pc = "d_owner"
  /\ IF procs[p].user = System \/ isOwner(members, procs[p].user, RaceVault)
       THEN Goto(p, "d_members") ELSE Finish(p, "403")
  /\ UNCHANGED <<members, txActive, txSnap, crashed, dirs, raceRest>>

\* deleteVault: await deleteAllVaultMembers(vaultId)
DeleteMembers(p) ==
  /\ procs[p].pc = "d_members"
  /\ members' = deleteAllVaultMembers(members, RaceVault)
  /\ Goto(p, "d_rm")
  /\ UNCHANGED <<txActive, txSnap, crashed, dirs, raceRest>>

\* deleteVault: await fs.rm(vaultPath, { recursive: true, force: true })
DeleteRm(p) ==
  /\ procs[p].pc = "d_rm"
  /\ dirs' = dirs \ {getVaultPath(RaceVault)}
  /\ snapshot' = [snapshot EXCEPT ![getVaultPath(RaceVault)] = {}]
  /\ files' = [files EXCEPT ![getVaultPath(RaceVault)] = {}]
  /\ Finish(p, "200")
  /\ UNCHANGED <<members, txActive, txSnap, crashed, lastCall, regVars, sockVars, histVars,
                 admVars>>

\* POST /api/vault/:id/members: if (!(await vaultExists(vaultId))) 404
AddExists(p) ==
  /\ procs[p].pc = "a_exists"
  /\ IF vaultExists(dirs, RaceVault) THEN Goto(p, "a_add") ELSE Finish(p, "404")
  /\ UNCHANGED <<members, txActive, txSnap, crashed, dirs, raceRest>>

\* POST /api/vault/:id/members: addMember(vaultId, userId, role, addedBy)
AddMember(p) ==
  /\ procs[p].pc = "a_add"
  /\ LET result == addMember(members, RaceVault, procs[p].target, "editor", procs[p].user, "none")
     IN /\ members' = result.m
        /\ Finish(p, IF result.ok THEN "201" ELSE "400")
  /\ UNCHANGED <<txActive, txSnap, crashed, dirs, raceRest>>

NextDeleteRace ==
  \E p \in Procs :
    \/ DeleteExists(p)
    \/ DeleteOwner(p)
    \/ DeleteMembers(p)
    \/ DeleteRm(p)
    \/ AddExists(p)
    \/ AddMember(p)
    \/ JoinExists(p)
    \/ CreateAccess(p)
    \/ CreateMkdir(p)
    \/ CreateOwnerRead(p)
    \/ CreateOwnerInsert(p)
    \/ JoinHasMembers(p)
    \/ MigrateOwnerRead(p)
    \/ MigrateOwnerInsert(p)
    \/ JoinRole(p)
    \/ JoinAdd(p)

SpecDeleteRace == InitDeleteRace /\ [][NextDeleteRace]_vars

\* C26: deleting a vault removes its directory and its membership rows as one
\* step, also when a join or an addMember runs concurrently: once the calls
\* have returned, no membership row refers to a vault without a directory.
C26_NoRowWithoutDirectory ==
  (\A p \in Procs : procs[p].pc = "done") =>
    (vaultHasMembers(members, RaceVault) => vaultExists(dirs, RaceVault))

(***************************************************************************)
(* vault.ts: the per-file operations.  A path string is modelled as the    *)
(* sequence of its segments between "/": "/a" is <<"", "a">>.              *)
(***************************************************************************)
Segments == {"", ".", "..", "a", "b..c"}
Paths == UNION {[1..n -> Segments] : n \in 0..MaxPathLen}

\* path.isAbsolute (POSIX): the string starts with "/".
isAbsolute(p) == Len(p) >= 2 /\ p[1] = ""

\* path.normalize / path.resolve (POSIX) on segments: "" and "." are dropped,
\* ".." removes the segment before it; at the front it stays, unless the
\* path is absolute.
RECURSIVE normalizeSegments(_, _, _)
normalizeSegments(segs, acc, abs) ==
  IF segs = <<>> THEN acc
  ELSE LET s == Head(segs) IN
       IF s \in {"", "."} THEN normalizeSegments(Tail(segs), acc, abs)
       ELSE IF s = ".." THEN
         IF acc # <<>> /\ acc[Len(acc)] # ".."
           THEN normalizeSegments(Tail(segs), SubSeq(acc, 1, Len(acc) - 1), abs)
         ELSE IF abs THEN normalizeSegments(Tail(segs), acc, abs)
         ELSE normalizeSegments(Tail(segs), Append(acc, ".."), abs)
       ELSE normalizeSegments(Tail(segs), Append(acc, s), abs)

\* path.normalize(filepath).replace(/^[/\\]+/, '')
normalized(filepath) == normalizeSegments(filepath, <<>>, isAbsolute(filepath))

\* segment.includes('..')
includesDotDot(seg) == seg \in {"..", "b..c"}

\* sanitizePath: the normalized path, or a throw when it still includes "..".
sanitizePath(filepath) ==
  [ok |-> ~\E i \in 1..Len(normalized(filepath)) : includesDotDot(normalized(filepath)[i]),
   path |-> normalized(filepath)]

\* path.resolve(getVaultPath(vaultId)), below the working directory.
resolvedVaultPath(vaultId) == <<"data", "vaults", ToString(getVaultPath(vaultId))>>

\* resolved.startsWith(resolvedVaultPath + path.sep) || resolved === resolvedVaultPath
WithinVault(resolved, vaultId) ==
  /\ Len(resolved) >= Len(resolvedVaultPath(vaultId))
  /\ SubSeq(resolved, 1, Len(resolvedVaultPath(vaultId))) = resolvedVaultPath(vaultId)

\* A mutant of resolveInVault: the raw path is joined to the vault path.
resolveInVaultRaw(vaultId, filepath) ==
  [ok |-> TRUE,
   resolved |-> normalizeSegments(resolvedVaultPath(vaultId) \o filepath, <<>>, TRUE)]

\* The head of readVaultFile, writeVaultFile, deleteVaultFile and
\* renameVaultFile: sanitizePath, path.join to the vault path, and the check
\* of the resolved path.
resolveInVault(vaultId, filepath) ==
  LET s == sanitizePath(filepath)
      resolved == normalizeSegments(resolvedVaultPath(vaultId) \o s.path, <<>>, TRUE)
  IN [ok |-> s.ok /\ WithinVault(resolved, vaultId), resolved |-> resolved]

\* A per-file operation on the given paths: it throws before any file-system
\* call when one path is refused, else it works on the resolved paths.
FileCall(op, vaultId, paths) ==
  LET r == [i \in 1..Len(paths) |-> resolveInVault(vaultId, paths[i])]
      ok == \A i \in 1..Len(paths) : r[i].ok
  IN /\ fileCall' = [op |-> op, vaultId |-> vaultId, paths |-> paths, ok |-> ok,
                     touched |-> IF ok THEN {r[i].resolved : i \in 1..Len(paths)} ELSE {}]
     /\ UNCHANGED <<members, lastCall, txVars, regVars, fsVars, sockVars, histVars,
                    backups, clock, users, objVars>>

\* The first per-file call after the start, one of each operation.
readVaultFile ==
  /\ fileCall = NoFileCall
  /\ \E v \in VaultIds, p \in Paths : FileCall("readVaultFile", v, <<p>>)

writeVaultFileCall ==
  /\ fileCall = NoFileCall
  /\ \E v \in VaultIds, p \in Paths : FileCall("writeVaultFile", v, <<p>>)

deleteVaultFile ==
  /\ fileCall = NoFileCall
  /\ \E v \in VaultIds, p \in Paths : FileCall("deleteVaultFile", v, <<p>>)

renameVaultFile ==
  /\ fileCall = NoFileCall
  /\ \E v \in VaultIds, p, q \in Paths : FileCall("renameVaultFile", v, <<p, q>>)

NextPath ==
  \/ readVaultFile
  \/ writeVaultFileCall
  \/ deleteVaultFile
  \/ renameVaultFile

SpecPath == InitCommon /\ [][NextPath]_vars

\* ---------------------------------------------------------------------------
\* The backup API and the collaboration engine over one vault.
InitBackup == InitSeeded(Atoms)

NextBackup ==
  \/ \E c \in Conns : Authenticate(c) /\ OnVaultAB
  \/ \E c \in Conns : JoinVault(c) /\ OnVaultAB
  \/ \E c \in Conns : SyncMessage(c) /\ OnVaultAB
  \/ AutoSave /\ OnVaultAB
  \/ FileWriteTimer /\ OnVaultAB
  \/ InitialBackup
  \/ Elapse
  \/ ApiListBackups /\ OnVaultAB
  \/ ApiBackup /\ OnVaultAB
  \/ ApiRestore /\ OnVaultAB

SpecBackup == InitBackup /\ [][NextBackup]_vars

\* ---------------------------------------------------------------------------
\* The backup scheduler over the days.
NextScheduler ==
  \/ HourlyInterval
  \/ ApiBackup /\ OnVaultAB

SpecScheduler == InitBackup /\ [][NextScheduler]_vars

\* ---------------------------------------------------------------------------
\* Sockets that join under both vault ids, over an existing vault.
NextMulti ==
  \/ \E c \in Conns : Authenticate(c)
  \/ \E c \in Conns : JoinVault(c)
  \/ \E c \in Conns : SyncMessage(c)
  \/ \E c \in Conns : LeaveVault(c)

SpecMulti == InitVault /\ [][NextMulti]_vars

\* ---------------------------------------------------------------------------
\* Joining and leaving a vault whose snapshot holds several file paths.
InitJoin == InitSeeded(SeedPaths)

NextJoin ==
  \/ \E c \in Conns : Authenticate(c) /\ OnVaultAB
  \/ \E c \in Conns : JoinVault(c) /\ OnVaultAB
  \/ \E c \in Conns : LeaveVault(c) /\ OnVaultAB
  \/ \E c \in Conns : Disconnect(c) /\ OnVaultAB

SpecJoin == InitJoin /\ [][NextJoin]_vars

(***************************************************************************)
(* Claims on the collaboration engine (Spec).                              *)
(***************************************************************************)
\* The CRDT state of a vault: the registered doc, else the saved state.
CrdtState(docs, ds, snap, vaultId) ==
  IF vaultId \in DOMAIN docs THEN docs[vaultId]
  ELSE IF vaultExists(ds, vaultId) THEN snap[getVaultPath(vaultId)] ELSE {}

Listening(c, vaultId) == \E i \in 1..Len(handlers[c]) : handlers[c][i] = vaultId

\* The step handles a SYNC message of the given types from a viewer session.
ViewerSends(types) ==
  /\ lastOp'.op = "sync"
  /\ events' = events + 1
  /\ lastOp'.role = "viewer"
  /\ lastOp'.msg.type = MessageTypeSYNC
  /\ lastOp'.msg.sync \in types

\* C1: a SYNC message carrying a mutation (SyncStep2 or Update) from a
\* joined client whose session role is viewer is not applied: the vault's
\* CRDT state after the handler equals its state before, the vault is not
\* marked dirty by it and no file write is scheduled because of it.
C1_ViewerMutationNotApplied ==
  [][ViewerSends({messageYjsSyncStep2, messageYjsUpdate}) =>
       \A v \in VaultIds :
         Listening(lastOp'.conn, v) =>
           /\ CrdtState(vaultDocs', dirs', snapshot', v)
                = CrdtState(vaultDocs, dirs, snapshot, v)
           /\ SetHas(dirtyVaults', v) => SetHas(dirtyVaults, v)
           /\ pendingWrites'[v] \subseteq pendingWrites[v]]_vars

\* C2: when a client whose role is viewer sends a SyncStep2, the server
\* emits permission-denied with action write to that client and sends no
\* sync-message to any other client of the vault.
C2_ViewerSyncStep2Denied ==
  [][ViewerSends({messageYjsSyncStep2}) =>
       /\ \E i \in 1..Len(emitted') :
            emitted'[i] = Ev(lastOp'.conn, "permission-denied", "write")
       /\ \A i \in 1..Len(emitted') :
            emitted'[i].ev = "sync-message" => emitted'[i].to = lastOp'.conn]_vars

\* C3: for a vault that has at least one member, a join by an authenticated
\* user without a membership row emits permission-denied with action join
\* and does not occur: the socket is not added to the client set, no
\* sync-message listener is installed, no file-list or sync data is sent to
\* it, and the membership table is unchanged.
C3_NonMemberJoinDenied ==
  [][(/\ lastOp'.op = "join"
      /\ events' = events + 1
      /\ lastOp'.user # NoUser
      /\ vaultHasMembers(members, lastOp'.vaultId)
      /\ getUserVaultRole(members, lastOp'.user, lastOp'.vaultId) = NoRole) =>
       /\ \E i \in 1..Len(emitted') :
            emitted'[i] = Ev(lastOp'.conn, "permission-denied", "join")
       /\ \A i \in 1..Len(emitted') :
            emitted'[i].ev \notin {"file-list", "sync-message", "vault-joined"}
       /\ vaultClients' = vaultClients
       /\ handlers' = handlers
       /\ members' = members]_vars

\* C4: every operation that takes a vault id rejects an id with a character
\* outside [A-Za-z0-9_-]: no vault directory is created or written and no
\* membership row is created for such an id.
C4_InvalidVaultIdRejected ==
  [][(/\ events' = events + 1
      /\ lastOp'.vaultId \in VaultIds
      /\ ~ValidVaultId(lastOp'.vaultId)) =>
       /\ dirs \subseteq dirs'
       /\ \A d \in dirs : snapshot'[d] = snapshot[d]
       /\ dirs' \subseteq dirs
       /\ VaultMembers(members', lastOp'.vaultId)
            \subseteq VaultMembers(members, lastOp'.vaultId)]_vars

\* The step handles a SYNC message carrying a mutation from a session whose
\* cached role differs from viewer: the role the user had at the join.
StaleSessionSends ==
  /\ lastOp'.op = "sync"
  /\ events' = events + 1
  /\ lastOp'.user # NoUser
  /\ lastOp'.role # "viewer"
  /\ lastOp'.msg.type = MessageTypeSYNC
  /\ lastOp'.msg.sync \in {messageYjsSyncStep2, messageYjsUpdate}

\* C11: when the role record of a joined member has been changed to viewer
\* since the join, the next SyncStep2 or Update from that member's client is
\* handled under the refreshed role: it is neither applied to the vault's
\* CRDT state nor sent to another client.
C11_DemotedViewerNotApplied ==
  [][StaleSessionSends =>
       \A v \in VaultIds :
         (/\ Listening(lastOp'.conn, v)
          /\ getUserVaultRole(members, lastOp'.user, v) = "viewer") =>
           /\ CrdtState(vaultDocs', dirs', snapshot', v)
                = CrdtState(vaultDocs, dirs, snapshot, v)
           /\ \A i \in 1..Len(emitted') :
                emitted'[i].ev = "sync-message" => emitted'[i].to = lastOp'.conn]_vars

\* C12: a connection is registered for a vault only after a successful
\* authenticate on that connection.  The authenticated user of a connection is
\* set only by an authenticate event of that connection with a valid token; a
\* step that adds a connection to a client set or installs a sync-message
\* handler on it starts from a state where the connection is authenticated;
\* and a join-vault from a connection that is not authenticated emits an
\* error event to it and changes no registry, membership or vault state.
C12_AuthenticateBeforeJoin ==
  [][\A c \in Conns :
       /\ (authenticatedSockets'[c] # authenticatedSockets[c]
             /\ authenticatedSockets'[c] # NoUser) =>
            lastOp' = Op("authenticate", c, NoVault, authenticatedSockets'[c])
       /\ ((\E v \in VaultIds : c \in vaultClients'[v] \ vaultClients[v])
             \/ Len(handlers'[c]) > Len(handlers[c])) =>
            authenticatedSockets[c] # NoUser
       /\ (/\ lastOp'.op = "join"
           /\ lastOp'.conn = c
           /\ events' = events + 1
           /\ authenticatedSockets[c] = NoUser) =>
            /\ emitted' = <<Ev(c, "error", "Not authenticated")>>
            /\ UNCHANGED <<members, fsVars, regVars, sockVault, sockRole, handlers>>]_vars

\* A client is joined to the vault and the last event is a join-vault from
\* another connection that never authenticated, which got the error event.
C12_Witness ==
  /\ lastOp.op = "join"
  /\ authenticatedSockets[lastOp.conn] = NoUser
  /\ emitted = <<Ev(lastOp.conn, "error", "Not authenticated")>>
  /\ \E d \in Conns \ {lastOp.conn} :
       d \in vaultClients[VaultAB] /\ Listening(d, VaultAB)

\* The paths of a document in ascending order.
RECURSIVE SortedPaths(_)
SortedPaths(doc) ==
  IF doc = {} THEN <<>>
  ELSE LET least == CHOOSE a \in doc : \A b \in doc : a <= b
       IN <<least>> \o SortedPaths(doc \ {least})

\* What a join sent to the joining client of the messages of the initial sync.
SentToJoiner(out, c) ==
  SelectSeq(out, LAMBDA e : e.to = c /\ e.ev \in {"addClientToVault", "file-list", "sync-message"})

JoinSucceeds ==
  /\ lastOp'.op = "join"
  /\ events' = events + 1
  /\ Len(handlers'[lastOp'.conn]) > Len(handlers[lastOp'.conn])

\* C13: on a successful join the client is in the vault's client set before
\* the first message is sent to it, and it is sent, in this order, the
\* file-list with the sorted paths of the vault's CRDT state, SyncStep1,
\* SyncStep2 and the awareness state.
C13_JoinMessageOrder ==
  [][JoinSucceeds =>
       /\ lastOp'.conn \in vaultClients'[lastOp'.vaultId]
       /\ SentToJoiner(emitted', lastOp'.conn) =
            << Ev(lastOp'.conn, "addClientToVault", "registry"),
               Ev(lastOp'.conn, "file-list",
                  ToString(SortedPaths(CrdtState(vaultDocs, dirs, snapshot, lastOp'.vaultId)))),
               Ev(lastOp'.conn, "sync-message", "step1"),
               Ev(lastOp'.conn, "sync-message", "step2"),
               Ev(lastOp'.conn, "sync-message", "awareness") >>]_vars

\* A client has joined a vault whose CRDT state holds several paths.
C13_Witness ==
  /\ lastOp.op = "join"
  /\ lastOp.conn \in vaultClients[VaultAB]
  /\ Cardinality(vaultDocs[VaultAB]) >= 2
  /\ Len(SentToJoiner(emitted, lastOp.conn)) = 5

\* The step is a leave-vault or disconnect of a client joined to the vault it leaves.
JoinedClientDeparts ==
  /\ lastOp'.op \in {"leave", "disconnect"}
  /\ events' = events + 1
  /\ lastOp'.user # NoUser
  /\ lastOp'.vaultId \in VaultIds
  /\ lastOp'.conn \in vaultClients[lastOp'.vaultId]

\* C14: after the leave or disconnect of a joined client that leaves other
\* clients joined to the vault, the vault's awareness set does not contain
\* that client's entry, and when it had one its removal is sent to every
\* client that remains joined to the vault.
C14_AwarenessEntryRemoved ==
  [][(JoinedClientDeparts /\ vaultClients'[lastOp'.vaultId] # {}) =>
       LET v == lastOp'.vaultId
           c == lastOp'.conn
       IN /\ v \in DOMAIN vaultAwareness' => ClientId(c) \notin vaultAwareness'[v]
          /\ (v \in DOMAIN vaultAwareness /\ ClientId(c) \in vaultAwareness[v]) =>
               \A d \in vaultClients'[v] :
                 \E i \in 1..Len(emitted') : emitted'[i] = Ev(d, "sync-message", "awareness")]_vars

\* The vaults a departing connection was the only client of: the vault named
\* by leave-vault, every vault of the connection for a disconnect.
LastClientOf ==
  {v \in VaultIds :
     /\ vaultClients[v] = {lastOp'.conn}
     /\ lastOp'.op = "leave" => v = lastOp'.vaultId}

\* C15: when the last joined client of a vault leaves or disconnects, the
\* doc's full state is written to the snapshot, the doc, the awareness set
\* and the dirty flag of the vault are dropped, and the state a following
\* join loads equals the state the doc had.
C15_LastClientFlushAndEvict ==
  [][(/\ lastOp'.op \in {"leave", "disconnect"}
      /\ events' = events + 1
      /\ lastOp'.user # NoUser) =>
       \A v \in LastClientOf :
         v \in DOMAIN vaultDocs =>
           /\ vaultExists(dirs', v)
           /\ snapshot'[getVaultPath(v)] = vaultDocs[v]
           /\ v \notin DOMAIN vaultDocs'
           /\ v \notin DOMAIN vaultAwareness'
           /\ ~SetHas(dirtyVaults', v)
           /\ loadVaultState(Store(members', dirs', snapshot', files', vaultDocs', dirtyVaults',
                                   pendingWrites', vaultAwareness', clientDocs', <<>>), v)
                = vaultDocs[v]]_vars

\* C16: a vault has a live doc in the registry only if its client set is
\* not empty.
C16_LiveDocHasClients ==
  \A v \in VaultIds : v \in DOMAIN vaultDocs => vaultClients[v] # {}

\* The step handles a SYNC message of the given types from a session whose
\* role is a writing role.
WriterSends(types) ==
  /\ lastOp'.op = "sync"
  /\ events' = events + 1
  /\ lastOp'.role \in {"owner", "admin", "editor"}
  /\ lastOp'.msg.type = MessageTypeSYNC
  /\ lastOp'.msg.sync \in types

\* The other clients of the vaults whose handler on the sending socket ran.
OtherClients ==
  {d \in Conns \ {lastOp'.conn} :
     \E v \in VaultIds : Listening(lastOp'.conn, v) /\ d \in vaultClients[v]}

GotUpdate(d) == \E i \in 1..Len(emitted') : emitted'[i] = Ev(d, "sync-message", "update")

\* C17: a SyncStep2 from a client with a writing role is applied to the
\* vault's doc and a SYNC Update is then sent to every other client joined
\* to the same vault, and not to the sender.
C17_WriterSyncStep2Broadcast ==
  [][WriterSends({messageYjsSyncStep2}) =>
       /\ \A v \in VaultIds :
            Listening(lastOp'.conn, v) => lastOp'.msg.atom \in vaultDocs'[v]
       /\ \A d \in OtherClients : GotUpdate(d)
       /\ ~GotUpdate(lastOp'.conn)]_vars

C19_AwarenessNotEchoed ==
  [][(/\ lastOp'.op = "sync"
      /\ events' = events + 1
      /\ lastOp'.msg.type = MessageTypeAWARENESS) =>
       /\ \A v \in VaultIds :
            Listening(lastOp'.conn, v) => ClientId(lastOp'.conn) \in vaultAwareness'[v]
       /\ \A d \in OtherClients :
            \E i \in 1..Len(emitted') : emitted'[i] = Ev(d, "sync-message", "awareness")
       /\ \A i \in 1..Len(emitted') : emitted'[i].to # lastOp'.conn]_vars

\* C20: the handlers run to completion and deliver at once, so every state
\* is one with no message in flight.  Every update a client with a writing
\* role has delivered to the server is then in the doc of every connected
\* client joined to the vault.
C20_JoinedClientsConverge ==
  [][WriterSends({messageYjsSyncStep2, messageYjsUpdate}) =>
       \A v \in VaultIds :
         Listening(lastOp'.conn, v) =>
           \A d \in vaultClients'[v] \cap connected' :
             Listening(d, v) => lastOp'.msg.atom \in clientDocs'[d]]_vars

(***************************************************************************)
(* Claims on the backup API and the scheduler (SpecBackup, SpecScheduler). *)
(***************************************************************************)
\* The step is a backup route answering 200.
BackupRouteActs ==
  /\ lastOp'.op \in {"listBackups", "backup", "restore"}
  /\ events' = events + 1
  /\ lastOp'.status = 200

\* C21: the backup routes of a vault (list, manual backup, restore) check the
\* caller's role on the vault before acting: a caller without a role on the
\* vault gets no 200 from them.
C21_BackupRoutesCheckRole ==
  [][BackupRouteActs =>
       getUserVaultRole(members, lastOp'.user, lastOp'.vaultId) # NoRole]_vars

(***************************************************************************)
(* Claims on the per-file operations of the vault store (SpecPath).        *)
(***************************************************************************)
HasDotDotSegment(p) == \E i \in 1..Len(p) : p[i] = ".."

\* The normal form of the path still begins with "..": the path climbs above
\* the directory it starts from.
ClimbsOut(p) == normalized(p) # <<>> /\ normalized(p)[1] = ".."

\* C22 as stated: a per-file call on a path with a ".." segment is rejected.
C22_DotDotSegmentRejected ==
  fileCall.op # "none" =>
    ((\E i \in 1..Len(fileCall.paths) : HasDotDotSegment(fileCall.paths[i])) => ~fileCall.ok)

\* C22: a per-file call is either rejected with no file-system call made, or
\* every path it works on resolves inside (or to) the vault's directory; a
\* path whose normal form begins with ".." (../secret, ../../etc/passwd) is
\* always rejected.
C22_PathsStayInVault ==
  fileCall.op # "none" =>
    /\ fileCall.ok => \A r \in fileCall.touched : WithinVault(r, fileCall.vaultId)
    /\ ~fileCall.ok => fileCall.touched = {}
    /\ (\E i \in 1..Len(fileCall.paths) : ClimbsOut(fileCall.paths[i])) => ~fileCall.ok

C22_Witness ==
  /\ fileCall.op = "renameVaultFile"
  /\ fileCall.paths = <<<<"a">>, <<"..", "a">>>>
  /\ ~fileCall.ok
  /\ fileCall.touched = {}

\* C23: at the end of every scheduler tick each vault has at most
\* HOURLY_RETENTION hourly and at most DAILY_RETENTION daily snapshots.
C23_RetentionAfterTick ==
  lastOp.op = "runHourlyBackup" =>
    \A d \in DirNames :
      /\ Cardinality(DOMAIN backups[d].hourly) <= HOURLY_RETENTION
      /\ Cardinality(DOMAIN backups[d].daily) <= DAILY_RETENTION

\* The step is a restore answering 200.
RestoreSucceeds ==
  /\ lastOp'.op = "restore"
  /\ events' = events + 1
  /\ lastOp'.status = 200

\* C24: after a successful restore the live directory holds exactly the
\* contents of the chosen backup, and when the live directory existed before,
\* a pre-restore snapshot holds the live contents from just before the restore.
C24_RestoreContents ==
  [][RestoreSucceeds =>
       LET d == getVaultPath(lastOp'.vaultId) IN
         /\ DirContent(snapshot', files', d) = backups[d][lastOp'.type][lastOp'.name]
         /\ d \in dirs =>
              \E n \in DOMAIN backups'[d].hourly :
                /\ n[1] = 1
                /\ backups'[d].hourly[n] = DirContent(snapshot, files, d)]_vars

\* C25: after a successful restore of a vault no in-memory document of that
\* vault remains registered, so that the next join loads the restored
\* snapshot and no later flush writes the old state over it.
C25_RestoreEvictsDoc ==
  [][RestoreSucceeds =>
       \A v \in VaultIds :
         getVaultPath(v) = getVaultPath(lastOp'.vaultId) => v \notin DOMAIN vaultDocs']_vars

(***************************************************************************)
(* Claims on vault ids and on sockets joined to several vaults (SpecMulti).*)
(***************************************************************************)
\* C29: two vault ids never resolve to one directory, so that no join under
\* one id succeeds for a user who has no membership row under another id
\* whose members' data that directory holds.
C29_JoinUnderOtherId ==
  [][JoinSucceeds =>
       \A w \in VaultIds \ {lastOp'.vaultId} :
         (/\ getVaultPath(w) = getVaultPath(lastOp'.vaultId)
          /\ vaultHasMembers(members, w)) =>
           getUserVaultRole(members, lastOp'.user, w) # NoRole]_vars

\* The step handles a SYNC Update of an authenticated session.
UpdateHandled ==
  /\ lastOp'.op = "sync"
  /\ events' = events + 1
  /\ lastOp'.user # NoUser
  /\ lastOp'.msg.type = MessageTypeSYNC
  /\ lastOp'.msg.sync = messageYjsUpdate

DocsChanged ==
  {v \in VaultIds :
     CrdtState(vaultDocs', dirs', snapshot', v) # CrdtState(vaultDocs, dirs, snapshot, v)}

\* C30: the role that gates a sync message applied to a vault is the sender's
\* role in that vault: an Update from a connection that is a viewer of a vault
\* it has joined is broadcast to no other client of that vault, whatever vault
\* the connection joined afterwards, and a message changes the doc of at most
\* one vault.
C30_RoleOfTheVaultGates ==
  [][UpdateHandled =>
       /\ \A v \in VaultIds :
            (/\ Listening(lastOp'.conn, v)
             /\ getUserVaultRole(members, lastOp'.user, v) = "viewer") =>
              \A i \in 1..Len(emitted') :
                (emitted'[i].ev = "sync-message" /\ emitted'[i].arg = "update") =>
                  emitted'[i].to \notin vaultClients[v] \ {lastOp'.conn}
       /\ Cardinality(DocsChanged) <= 1]_vars

(***************************************************************************)
(* SpecDocRace: the handlers of collaboration.ts on one vault, interleaved *)
(* at their awaits.  A Y.Doc is an object: heap[i] is the i-th instance    *)
(* made by loadVaultState, docId[v] the instance vaultDocs.get(v) returns, *)
(* and a handler keeps the instance it was given in its local `doc`.       *)
(* A continuation that follows an await on an already settled promise runs *)
(* in the same step; a step ends where the code waits for the file system  *)
(* or for a timer.                                                         *)
(***************************************************************************)
\* Updates a client can send; each one changes the file key UpdatePath(u),
\* setting the file's text or deleting the key.
Updates == 1..NumUpdates
UpdatePath(u) == (u + 1) \div 2
UpdateAction(u) == IF u % 2 = 1 THEN "update" ELSE "delete"

DocDir == getVaultPath(RaceVault)

\* new Y.Doc() in loadVaultState, with the maps of its setupFileMapObserver.
NewDoc(content, loadErr, disk) ==
  [content |-> content, loadErr |-> loadErr, disk |-> disk, destroyed |-> FALSE,
   pendingWrites |-> EmptyMap, pendingDeletes |-> EmptyMap]

\* An async call in flight: its position and its locals.
AsyncCall(op, pc, conn, upd, ret) ==
  [op |-> op, pc |-> pc, conn |-> conn, upd |-> upd, ret |-> ret, doc |-> 0, state |-> {}]

RemoveAt(s, i) == [j \in 1..(Len(s) - 1) |-> IF j < i THEN s[j] ELSE s[j + 1]]

\* vaultDocs, as the contents of the registered instances.
DocsOf(hp, ids) == [v \in DOMAIN ids |-> hp[ids[v]].content]

\* setTimeout(..., writeDebounceMs) of scheduleFileWrite / scheduleFileDelete.
Timer(doc, path, kind) == [doc |-> doc, path |-> path, kind |-> kind, status |-> "pending"]

\* clearTimeout(map.get(filepath)): a timer that has fired is not affected.
clearTimeout(tm, map, path) ==
  IF path \in DOMAIN map /\ tm[map[path]].status = "pending"
    THEN [tm EXCEPT ![map[path]].status = "cleared"]
    ELSE tm

\* scheduleFileWrite(filepath, content) of the observer of instance i.
scheduleFileWrite(hp, tm, i, path) ==
  LET t1 == clearTimeout(clearTimeout(tm, hp[i].pendingWrites, path),
                         hp[i].pendingDeletes, path)
  IN [heap |-> [hp EXCEPT ![i].pendingDeletes = MapDelete(@, path),
                          ![i].pendingWrites = MapSet(@, path, Len(t1) + 1)],
      timers |-> Append(t1, Timer(i, path, "write"))]

\* scheduleFileDelete(filepath) of the observer of instance i.
scheduleFileDelete(hp, tm, i, path) ==
  LET t1 == clearTimeout(clearTimeout(tm, hp[i].pendingWrites, path),
                         hp[i].pendingDeletes, path)
  IN [heap |-> [hp EXCEPT ![i].pendingWrites = MapDelete(@, path),
                          ![i].pendingDeletes = MapSet(@, path, Len(t1) + 1)],
      timers |-> Append(t1, Timer(i, path, "delete"))]

\* Y.applyUpdate(doc, update) on instance i: a new update is integrated, and
\* files.observe schedules the write or the delete of the changed key.
docApplyUpdate(hp, tm, i, u) ==
  IF u \in hp[i].content THEN [heap |-> hp, timers |-> tm]
  ELSE LET h1 == [hp EXCEPT ![i].content = @ \cup {u}] IN
       IF UpdateAction(u) = "delete"
         THEN scheduleFileDelete(h1, tm, i, UpdatePath(u))
         ELSE scheduleFileWrite(h1, tm, i, UpdatePath(u))

docRaceRest == <<members, lastCall, txActive, txSnap, crashed, backups, clock, users,
                 fileCall, pendingWrites, vaultAwareness, clientDocs, sockVars, lastOp,
                 apiCalls>>

\* The server has started; the vault's directory may exist, with a snapshot.
InitDocRace ==
  /\ members = [EmptyTable EXCEPT ![RaceVault] = [u \in Users |-> "editor"]]
  /\ lastCall = NoCall
  /\ txActive = FALSE
  /\ txSnap = EmptyTable
  /\ procs = <<>>
  /\ crashed = FALSE
  /\ \E ds \in {{}, {DocDir}} :
       /\ dirs = ds
       /\ \E seed \in {{}, {1}} :
            snapshot = [d \in DirNames |-> IF d \in ds THEN seed ELSE {}]
  /\ files = [d \in DirNames |-> {}]
  /\ InitEngine

\* A new handler starts: one more call, and room for it in flight.
StartCall ==
  /\ events < MaxCalls
  /\ Len(procs) < NumProcs
  /\ events' = events + 1

\* getOrCreateDoc up to its first await: the registered instance, or 0 when
\* the code goes on to `await vaultExists(vaultId)`.
docGet == IF RaceVault \in DOMAIN docId THEN docId[RaceVault] ELSE 0

\* handleSyncMessage after `await getOrCreateDoc`: readSyncMessage applies the
\* update to the handler's doc, the doc's 'update' listener and line 315 mark
\* the vault dirty.
SyncBody(hp, ids, i, u) ==
  LET r == docApplyUpdate(hp, timers, i, u) IN
  /\ heap' = r.heap
  /\ timers' = r.timers
  /\ docId' = ids
  /\ vaultDocs' = DocsOf(r.heap, ids)
  /\ dirtyVaults' = SetAdd(dirtyVaults, RaceVault)

\* socket.on('sync-message') of a socket that has joined, with an update the
\* user may write.
SyncCall ==
  /\ StartCall
  /\ \E c \in vaultClients[RaceVault], u \in Updates :
       IF docGet # 0
         THEN /\ SyncBody(heap, docId, docGet, u)
              /\ UNCHANGED procs
         ELSE /\ procs' = Append(procs, AsyncCall("sync", "g_exists", c, u, "s_body"))
              /\ UNCHANGED <<heap, timers, docId, vaultDocs, dirtyVaults>>
  /\ UNCHANGED <<vaultClients, dirs, snapshot, files, emitted, docRaceRest>>

\* socket.on('join-vault') of a member: the socket is added to the clients,
\* the 'sync-message' listener is installed, getVaultFileList gets the doc.
JoinCall ==
  /\ StartCall
  /\ \E c \in Conns \ vaultClients[RaceVault] :
       /\ vaultClients' = [vaultClients EXCEPT ![RaceVault] = @ \cup {c}]
       /\ procs' = Append(procs, IF docGet # 0
                                   THEN [AsyncCall("join", "j_sync", c, 0, "") EXCEPT !.doc = docGet]
                                   ELSE AsyncCall("join", "g_exists", c, 0, "j_sync"))
  /\ UNCHANGED <<heap, timers, docId, vaultDocs, dirtyVaults, dirs, snapshot, files,
                 emitted, docRaceRest>>

\* getOrCreateDoc: `await vaultExists(vaultId)` returns; a missing vault is
\* created with an empty snapshot.
DocExists ==
  \E p \in DOMAIN procs :
  /\ procs[p].pc = "g_exists"
  /\ procs' = [procs EXCEPT ![p].pc = "g_load"]
  /\ IF DocDir \in dirs THEN UNCHANGED <<dirs, snapshot>>
     ELSE /\ dirs' = dirs \cup {DocDir}
          /\ snapshot' = [snapshot EXCEPT ![DocDir] = {}]
  /\ UNCHANGED <<heap, timers, docId, vaultDocs, dirtyVaults, vaultClients, files, events,
                 emitted, docRaceRest>>

\* getOrCreateDoc: `await loadVaultState(vaultId)` returns a new Y.Doc, with
\* the snapshot applied unless readFile or applyUpdate threw; the doc is
\* registered with vaultDocs.set and the caller goes on with it.
DocLoad ==
  \E p \in DOMAIN procs :
  /\ procs[p].pc = "g_load"
  /\ \E err \in BOOLEAN :
       LET doc == NewDoc(IF err THEN {} ELSE snapshot[DocDir], err, snapshot[DocDir])
           hp == Append(heap, doc)
           i == Len(hp)
           ids == MapSet(docId, RaceVault, i)
       IN IF procs[p].ret = "s_body"
            THEN /\ SyncBody(hp, ids, i, procs[p].upd)
                 /\ procs' = RemoveAt(procs, p)
            ELSE /\ heap' = hp
                 /\ docId' = ids
                 /\ vaultDocs' = DocsOf(hp, ids)
                 /\ procs' = [procs EXCEPT ![p].pc = procs[p].ret, ![p].doc = i]
                 /\ UNCHANGED <<timers, dirtyVaults>>
  /\ UNCHANGED <<vaultClients, dirs, snapshot, files, events, emitted, docRaceRest>>

\* handleJoinVault: the delays of lines 497 and 379 have passed and
\* sendInitialSync gets the doc.
JoinSync ==
  \E p \in DOMAIN procs :
  /\ procs[p].pc = "j_sync"
  /\ procs' = IF docGet # 0
                THEN [procs EXCEPT ![p].pc = "j_save", ![p].doc = docGet]
                ELSE [procs EXCEPT ![p].pc = "g_exists", ![p].ret = "j_save"]
  /\ UNCHANGED <<heap, timers, docId, vaultDocs, dirtyVaults, vaultClients, dirs, snapshot,
                 files, events, emitted, docRaceRest>>

\* saveVaultState(vaultId, doc) up to its await: Y.encodeStateAsUpdate(doc)
\* is taken from the doc that vaultDocs.get(vaultId) returns now.
SaveBegin(call, pc) == [call EXCEPT !.pc = pc, !.doc = docGet, !.state = heap[docGet].content]

\* handleJoinVault, lines 506-514: the last delay of sendInitialSync has
\* passed; the registered doc, if any, is saved.
JoinSave ==
  \E p \in DOMAIN procs :
  /\ procs[p].pc = "j_save"
  /\ procs' = IF docGet # 0 THEN [procs EXCEPT ![p] = SaveBegin(@, "j_write")]
              ELSE RemoveAt(procs, p)
  /\ UNCHANGED <<heap, timers, docId, vaultDocs, dirtyVaults, vaultClients, dirs, snapshot,
                 files, events, emitted, docRaceRest>>

\* The setInterval callback of initializeCollaboration finds the vault in
\* dirtyVaults and its doc in vaultDocs.
AutosaveCall ==
  /\ StartCall
  /\ SetHas(dirtyVaults, RaceVault)
  /\ docGet # 0
  /\ procs' = Append(procs, SaveBegin(AsyncCall("autosave", "a_write", 0, 0, ""), "a_write"))
  /\ UNCHANGED <<heap, timers, docId, vaultDocs, dirtyVaults, vaultClients, dirs, snapshot,
                 files, emitted, docRaceRest>>

\* removeClientFromVault up to the await of saveAndCleanupVault: the socket
\* leaves the client set; the call goes on when it was the last one and a doc
\* is registered.
removeClient(call, clients) ==
  IF clients # {} /\ clients \ {call.conn} = {} /\ docGet # 0
    THEN <<SaveBegin(call, "l_cleanup")>>
    ELSE <<>>

\* handleLeaveVault (leave-vault or disconnect) of a socket in the vault.
LeaveCall ==
  /\ StartCall
  /\ \E c \in vaultClients[RaceVault] :
       /\ \A q \in DOMAIN procs : ~(procs[q].op = "leave" /\ procs[q].conn = c)
       /\ IF SetHas(dirtyVaults, RaceVault) /\ docGet # 0
            THEN /\ procs' = Append(procs, SaveBegin(AsyncCall("leave", "l_write", c, 0, ""), "l_write"))
                 /\ UNCHANGED vaultClients
            ELSE /\ procs' = procs \o removeClient(AsyncCall("leave", "l_remove", c, 0, ""),
                                                   vaultClients[RaceVault])
                 /\ vaultClients' = [vaultClients EXCEPT ![RaceVault] = @ \ {c}]
  /\ UNCHANGED <<heap, timers, docId, vaultDocs, dirtyVaults, dirs, snapshot, files,
                 emitted, docRaceRest>>

\* The log line of a save that returned: console.log of saveVaultState, or the
\* console.error of the caller's catch block.
saveLog(op, ok) ==
  <<Ev(0, IF ok THEN "console.log" ELSE "console.error", op)>>

\* try { await saveVaultState(vaultId, doc); dirtyVaults.delete(vaultId) }
\* catch (err) { console.error(...) }: a rejected save keeps the dirty flag.
dirtyAfterSaveFinally(dirty, ok) == SetDelete(dirty, RaceVault)

dirtyAfterSave(dirty, ok) == IF ok THEN SetDelete(dirty, RaceVault) ELSE dirty

\* atomicWriteBinary returns to a save made in a try block: on success the
\* snapshot is the state taken at SaveBegin and dirtyVaults.delete runs; a
\* rejected write is logged.  handleLeaveVault goes on to removeClientFromVault.
SaveWrite ==
  \E p \in DOMAIN procs :
  /\ procs[p].pc \in {"j_write", "a_write", "l_write"}
  /\ \E ok \in BOOLEAN :
       /\ snapshot' = IF ok THEN [snapshot EXCEPT ![DocDir] = procs[p].state] ELSE snapshot
       /\ dirtyVaults' = dirtyAfterSave(dirtyVaults, ok)
       /\ emitted' = saveLog(procs[p].op, ok)
  /\ IF procs[p].pc = "l_write"
       THEN /\ procs' = RemoveAt(procs, p) \o removeClient(procs[p], vaultClients[RaceVault])
            /\ vaultClients' = [vaultClients EXCEPT ![RaceVault] = @ \ {procs[p].conn}]
       ELSE /\ procs' = RemoveAt(procs, p)
            /\ UNCHANGED vaultClients
  /\ UNCHANGED <<heap, timers, docId, vaultDocs, dirs, files, events, docRaceRest>>

\* saveAndCleanupVault after `await saveVaultState`: a rejected write throws;
\* else, with no client in the vault, the doc is destroyed and the vault is
\* dropped from vaultDocs and dirtyVaults.
LeaveCleanup ==
  \E p \in DOMAIN procs :
  /\ procs[p].pc = "l_cleanup"
  /\ procs' = RemoveAt(procs, p)
  /\ \E ok \in BOOLEAN :
       /\ emitted' = saveLog("cleanup", ok)
       /\ IF ~ok THEN UNCHANGED <<snapshot, heap, docId, vaultDocs, dirtyVaults>>
          ELSE
            /\ snapshot' = [snapshot EXCEPT ![DocDir] = procs[p].state]
            /\ IF vaultClients[RaceVault] = {}
                 THEN /\ heap' = [heap EXCEPT ![procs[p].doc].destroyed = TRUE]
                      /\ docId' = MapDelete(docId, RaceVault)
                      /\ vaultDocs' = DocsOf(heap', docId')
                      /\ dirtyVaults' = SetDelete(dirtyVaults, RaceVault)
                 ELSE UNCHANGED <<heap, docId, vaultDocs, dirtyVaults>>
  /\ UNCHANGED <<timers, vaultClients, dirs, files, events, docRaceRest>>

\* A debounce timer fires: the callback drops its entry from the map of its
\* observer and awaits writeVaultFile or deleteVaultFile.
TimerFire ==
  \E t \in DOMAIN timers :
    /\ timers[t].status = "pending"
    /\ timers' = [timers EXCEPT ![t].status = "running"]
    /\ heap' = IF timers[t].kind = "write"
                 THEN [heap EXCEPT ![timers[t].doc].pendingWrites = MapDelete(@, timers[t].path)]
                 ELSE [heap EXCEPT ![timers[t].doc].pendingDeletes = MapDelete(@, timers[t].path)]
    /\ UNCHANGED <<procs, docId, vaultDocs, dirtyVaults, vaultClients, dirs, snapshot, files,
                   events, emitted, docRaceRest>>

\* writeVaultFile / deleteVaultFile of a fired timer returns.
TimerDone ==
  \E t \in DOMAIN timers :
    /\ timers[t].status = "running"
    /\ timers' = [timers EXCEPT ![t].status = "done"]
    /\ files' = [files EXCEPT ![DocDir] = IF timers[t].kind = "write"
                                            THEN @ \cup {timers[t].path}
                                            ELSE @ \ {timers[t].path}]
    /\ UNCHANGED <<procs, heap, docId, vaultDocs, dirtyVaults, vaultClients, dirs, snapshot,
                   events, emitted, docRaceRest>>

NextDocRace ==
  \/ SyncCall
  \/ JoinCall
  \/ AutosaveCall
  \/ LeaveCall
  \/ DocExists
  \/ DocLoad
  \/ JoinSync
  \/ JoinSave
  \/ SaveWrite
  \/ LeaveCleanup
  \/ TimerFire
  \/ TimerDone

SpecDocRace == InitDocRace /\ [][NextDocRace]_vars

(***************************************************************************)
(* Claims on the interleaved handlers (SpecDocRace).                       *)
(***************************************************************************)
\* The Y.Doc instances that have not been destroyed.
LiveDocs == {i \in DOMAIN heap : ~heap[i].destroyed}

\* C31: at most one live Y.Doc exists per vault: under any interleaving of
\* joins and sync messages every handler works on the same instance, so every
\* update a handler applied is in the doc that vaultDocs holds, the one later
\* broadcasts and snapshot saves are taken from.
C31_OneLiveDocPerVault ==
  /\ Cardinality(LiveDocs) <= 1
  /\ \A p \in DOMAIN procs : procs[p].doc # 0 /\ docGet # 0 => procs[p].doc = docGet
  /\ docGet # 0 => \A i \in LiveDocs : heap[i].content \subseteq heap[docGet].content

\* A saveVaultState of the vault is awaiting its write.
SaveInProgress ==
  \E p \in DOMAIN procs : procs[p].pc \in {"j_write", "a_write", "l_write", "l_cleanup"}

\* C32: whenever no snapshot save is in progress for a live vault, a doc that
\* holds an update the on-disk snapshot lacks is in dirtyVaults; an update
\* applied while a save is in flight leaves the vault dirty after that save.
C32_UnsavedUpdateIsDirty ==
  (~SaveInProgress /\ docGet # 0 /\ ~(heap[docGet].content \subseteq snapshot[DocDir]))
    => SetHas(dirtyVaults, RaceVault)

\* The timers whose writeVaultFile or deleteVaultFile of the path is awaited.
InFlight(path) == {t \in DOMAIN timers : timers[t].status = "running" /\ timers[t].path = path}

FilePaths == {UpdatePath(u) : u \in Updates}

\* C33: for each file path of a vault at most one disk write or delete is in
\* flight at any time: a debounce timer never starts its write or delete while
\* an earlier write or delete of the same path has not finished.
C33_OneWriteInFlightPerPath ==
  \A path \in FilePaths : Cardinality(InFlight(path)) <= 1

\* C34: a failure to read or decode the snapshot when a vault's doc is loaded
\* never causes the on-disk snapshot to be replaced by a state that lacks
\* updates the snapshot held before the failure.
C34_LoadFailureKeepsSnapshot ==
  \A i \in DOMAIN heap : heap[i].loadErr => heap[i].disk \subseteq snapshot[DocDir]

\* The timers of a path that have been set and have neither fired nor been
\* cleared.
Pending(path) == {t \in DOMAIN timers : timers[t].status = "pending" /\ timers[t].path = path}

\* C38: for every file path of a vault at most one debounce timer is pending
\* across pending writes and pending deletes: scheduling a write or a delete
\* cancels the pending timers of the path, so only the last scheduled action
\* fires.
C38_OneTimerPerPath ==
  \A path \in FilePaths : Cardinality(Pending(path)) <= 1

\* The step is the return of the save of autosave call p, successful or not.
AutosaveReturns(p, ok) ==
  /\ procs[p].op = "autosave"
  /\ procs[p].pc = "a_write"
  /\ procs' = RemoveAt(procs, p)
  /\ emitted' = saveLog("autosave", ok)

\* The step is an autosave tick that starts the save of the vault.
AutosaveStarts ==
  /\ events' = events + 1
  /\ Len(procs') = Len(procs) + 1
  /\ procs'[Len(procs')].op = "autosave"

StateFileName == "_state.ydoc"

\* getYDocPath(vaultId), resolved.
getYDocPath(vaultId) == resolvedVaultPath(vaultId) \o <<StateFileName>>

\* File paths and CRDT file keys that may name the snapshot file.
KeySegments == {".", "a", StateFileName}
FileKeys == UNION {[1..n -> KeySegments] : n \in 0..MaxPathLen}

\* POST /api/vault/:id/file/*filepath
ApiWriteFile ==
  /\ fileCall = NoFileCall
  /\ \E v \in VaultIds, p \in FileKeys \ {<<>>} : FileCall("writeVaultFile", v, <<p>>)

\* DELETE /api/vault/:id/file/*filepath
ApiDeleteFile ==
  /\ fileCall = NoFileCall
  /\ \E v \in VaultIds, p \in FileKeys \ {<<>>} : FileCall("deleteVaultFile", v, <<p>>)

\* renameVaultFile(vaultId, oldPath, newPath)
RenameFile ==
  /\ fileCall = NoFileCall
  /\ \E v \in VaultIds, p, q \in FileKeys : FileCall("renameVaultFile", v, <<p, q>>)

\* The debounce timer of scheduleFileWrite for a key of the doc's files map
\* calls writeVaultFile(vaultId, filepath, content).
ObserverWrite ==
  /\ fileCall = NoFileCall
  /\ \E v \in VaultIds, key \in FileKeys : FileCall("scheduleFileWrite", v, <<key>>)

\* The debounce timer of scheduleFileDelete for a key of the doc's files map
\* calls deleteVaultFile(vaultId, filepath).
ObserverDelete ==
  /\ fileCall = NoFileCall
  /\ \E v \in VaultIds, key \in FileKeys : FileCall("scheduleFileDelete", v, <<key>>)

NextStateFile ==
  \/ ApiWriteFile
  \/ ApiDeleteFile
  \/ RenameFile
  \/ ObserverWrite
  \/ ObserverDelete

SpecStateFile == InitCommon /\ [][NextStateFile]_vars

\* C35: no write, delete or rename made through the per-file operations of
\* the vault store, by the file API or by the file-map observer, targets the
\* vault's snapshot _state.ydoc.
C35_SnapshotFileNotTargeted ==
  (fileCall.op \in {"writeVaultFile", "deleteVaultFile", "renameVaultFile",
                    "scheduleFileWrite", "scheduleFileDelete"} /\ fileCall.ok)
    => getYDocPath(fileCall.vaultId) \notin fileCall.touched

(***************************************************************************)
(* backup.ts: the directory a restore request copies from.  The timestamp  *)
(* of the request is a string, modelled as its segments between "/".       *)
(***************************************************************************)
\* Another vault on the same server, and the name of a backup both vaults
\* have (the scheduler makes them in the same second).
OtherVault == "cd"
BackupName == "2026-01-01T00-00-00"

\* getBackupBasePath(vaultId), resolved.
getBackupBasePath(vaultId) == <<"data", "backups", ToString(getVaultPath(vaultId))>>

\* The directories on disk after the first run of the scheduler: the two
\* vault directories and an hourly and a daily backup of each.
DiskDirs ==
  {resolvedVaultPath(VaultAB), <<"data", "vaults", OtherVault>>}
    \cup {getBackupBasePath(VaultAB) \o <<type, BackupName>> : type \in BackupTypes}
    \cup {<<"data", "backups", OtherVault, type, BackupName>> : type \in BackupTypes}

TimestampSegments == {"..", "vaults", "backups", OtherVault, "hourly", BackupName}
Timestamps == UNION {[1..n -> TimestampSegments] : n \in 0..MaxTimestampLen}

\* restoreFromBackup: backupPath = path.join(backupBase, type, timestamp)
backupPath(vaultId, type, timestamp) ==
  normalizeSegments(getBackupBasePath(vaultId) \o <<type>> \o timestamp, <<>>, TRUE)

\* POST /api/vault/:id/restore with a type the route accepts: 400 without a
\* timestamp; restoreFromBackup throws when fs.access(backupPath) fails, else
\* it copies backupPath into the vault directory.
RestoreRequest ==
  /\ fileCall = NoFileCall
  /\ \E type \in BackupTypes, timestamp \in Timestamps :
       LET src == backupPath(VaultAB, type, timestamp)
           ok == timestamp # <<>> /\ src \in DiskDirs
       IN fileCall' = [op |-> "restoreFromBackup", vaultId |-> VaultAB,
                       paths |-> <<<<type>>, timestamp>>, ok |-> ok,
                       touched |-> IF ok THEN {src} ELSE {}]
  /\ UNCHANGED <<members, lastCall, txVars, regVars, fsVars, sockVars, histVars,
                 backups, clock, users, objVars>>

NextRestorePath == RestoreRequest

SpecRestorePath == InitCommon /\ [][NextRestorePath]_vars

\* C36: a restore copies only from a directory located directly inside
\* backups/<vaultId>/<kind>/: a timestamp with ".." or a path separator is
\* rejected, and no other vault's directory or other path is copied.
C36_RestoreSourceInsideBackups ==
  fileCall.op = "restoreFromBackup" =>
    /\ fileCall.ok =>
         \A src \in fileCall.touched :
           /\ Len(src) = Len(getBackupBasePath(fileCall.vaultId)) + 2
           /\ SubSeq(src, 1, Len(src) - 1)
                = getBackupBasePath(fileCall.vaultId) \o fileCall.paths[1]
    /\ (Len(fileCall.paths[2]) > 1 \/ \E i \in 1..Len(fileCall.paths[2]) :
                                         fileCall.paths[2][i] = "..") => ~fileCall.ok

(***************************************************************************)
(* backup.ts: a restore whose pre-restore copy may fail.                   *)
(***************************************************************************)
\* What copyDirectory(vaultPath, preRestorePath) got done before it returned
\* or threw: everything; the mkdir of the destination only; nothing.
CopyOutcomes == {"complete", "empty", "none"}

\* The pre-restore step of restoreFromBackup, lines 953-961: fs.access of the
\* live directory and copyDirectory in one try block whose catch is empty.
preRestoreCopy(bk, ds, snap, fl, vaultId, t, outcome) ==
  LET d == getVaultPath(vaultId) IN
  IF ~vaultExists(ds, vaultId) \/ outcome = "none" THEN bk
  ELSE IF outcome = "empty"
    THEN [bk EXCEPT ![d].hourly = copyDirectory([ydoc |-> {}, files |-> {}], @,
                                                PreRestoreName(t))]
    ELSE [bk EXCEPT ![d].hourly = copyDirectory(DirContent(snap, fl, d), @,
                                                PreRestoreName(t))]

\* restoreFromBackup(vaultId, timestamp, type) with the given outcome of the
\* pre-restore copy: the live directory is removed and the backup copied in
\* its place whatever that outcome was.
restoreWithCopyOutcome(bk, ds, snap, fl, vaultId, name, type, t, outcome) ==
  LET d == getVaultPath(vaultId)
      bk1 == preRestoreCopy(bk, ds, snap, fl, vaultId, t, outcome)
  IN IF name \notin DOMAIN bk[d][type]
       THEN [ok |-> FALSE, bk |-> bk, dirs |-> ds, snap |-> snap, files |-> fl]
       ELSE [ok |-> TRUE, bk |-> bk1, dirs |-> ds \cup {d},
             snap |-> [snap EXCEPT ![d] = bk1[d][type][name].ydoc],
             files |-> [fl EXCEPT ![d] = bk1[d][type][name].files]]

\* POST /api/vault/:id/restore, the copy of the live directory ending in any
\* of the ways the file system allows.
ApiRestoreCopyOutcome ==
  \E u \in Users, v \in VaultIds, type \in BackupTypes, outcome \in CopyOutcomes :
    \E name \in RestoreNames(v, type) :
      LET r == restoreWithCopyOutcome(backups, dirs, snapshot, files, v, name, type, clock,
                                      outcome)
      IN IF r.ok
           THEN BackupApi("restore", u, v, 200, type, name,
                          [Now EXCEPT !.dirs = r.dirs, !.snap = r.snap, !.files = r.files],
                          r.bk)
           ELSE BackupApi("restore", u, v, 500, type, name, Now, backups)

InitRestoreFail == InitSeeded(SeedPaths)

NextRestoreFail ==
  \/ InitialBackup
  \/ Elapse
  \/ ApiBackup /\ OnVaultAB
  \/ ApiDeleteVault /\ OnVaultAB
  \/ ApiRestoreCopyOutcome /\ OnVaultAB

SpecRestoreFail == InitRestoreFail /\ [][NextRestoreFail]_vars

\* C37: a restore removes an existing live directory only after the
\* pre-restore snapshot of it was created completely: whenever a restore has
\* replaced an existing live directory, the hourly backups hold a
\* pre-restore snapshot of this moment with the state and every file the
\* live directory had.
C37_LiveRemovedAfterCompleteCopy ==
  [][(RestoreSucceeds /\ vaultExists(dirs, lastOp'.vaultId)) =>
       LET d == getVaultPath(lastOp'.vaultId) IN
         /\ PreRestoreName(clock) \in DOMAIN backups'[d].hourly
         /\ backups'[d].hourly[PreRestoreName(clock)].ydoc = snapshot[d]
         /\ files[d] \subseteq backups'[d].hourly[PreRestoreName(clock)].files]_vars

\* ---------------------------------------------------------------------------
\* The scheduler over the days with restores of vault "ab" by its owner in
\* between.
ByOwnerOfAB == lastOp'.vaultId = VaultAB /\ lastOp'.user = 1

NextRetention ==
  \/ HourlyInterval
  \/ ApiRestore /\ ByOwnerOfAB

SpecRetention == InitBackup /\ [][NextRetention]_vars

\* The instant a snapshot directory was made, read from its name.
takenAt(name) == name[2]

\* C40: in the hourly directory of a vault the names sort in the order in
\* which the snapshots were taken, pre-restore snapshots included, and a
\* pruning step removes no snapshot taken after one that it keeps.
C40_HourlyNamesSortByTime ==
  [][\A d \in DirNames :
       LET before == DOMAIN backups[d].hourly
           after == DOMAIN backups'[d].hourly
       IN /\ \A n, m \in after : takenAt(n) < takenAt(m) => NameBefore(n, m)
          /\ \A n \in before \ after, m \in after : takenAt(n) <= takenAt(m)]_vars

=============================================================================
